---- MODULE Spec2Model ----
(***************************************************************************)
(* Client side of libstoragemgmt (c_binding/lsm_mgmt.cpp): the connection, *)
(* its last-error slot, the rpc() boundary, the job helpers and a          *)
(* representative public operation of every helper family.                 *)
(*                                                                         *)
(* One action is one public call made by the application.  Its inputs      *)
(* (argument validity, the contents of output slots, what the plug-in      *)
(* answers, which allocations fail) are drawn with \E.  Error codes are    *)
(* kept symbolic (their names), so no numeric value is assumed.            *)
(***************************************************************************)
EXTENDS Integers, Sequences, FiniteSets, TLC

VARIABLES
    conn,   \* the application's lsm_connect: state and last-error slot
    job,    \* the application's char *job handle
    call,   \* the public call that has just returned (NoCall between calls)
    proc,   \* "running", or how the process ended
    released, \* history: the handle held a job id, a successful lsm_job_free
              \* cleared it, and it has held no job since
    thr,    \* per thread sharing the connection: where it is in its call
    chan,   \* the session channel: request and response frames in flight
    plug    \* the simulator plug-in's job, "off" when the plug-in is arbitrary

vars == <<conn, job, call, proc, released, thr, chan, plug>>

(***************************************************************************)
(* Bounds of the model.                                                    *)
(***************************************************************************)
\* longest Array the plug-in answers with
MaxArrayLen == 3

\* most entries in the directory of plug-in sockets
MaxDirLen == 3

(***************************************************************************)
(* Dynamic Value (lsm_ipc Value as lsm_mgmt.cpp uses it): a tagged record. *)
(* An object either decodes (ok) or makes the value_to_* converter throw   *)
(* ValueException.                                                         *)
(***************************************************************************)
VNull == [t |-> "null_t"]
VBool(b) == [t |-> "boolean_t", b |-> b]
VNum(n) == [t |-> "numeric_t", n |-> n]
VStr(s) == [t |-> "string_t", s |-> s]
VObj(ok) == [t |-> "object_t", ok |-> ok]
VArr(a) == [t |-> "array_t", a |-> a]

\* the values that occur as members of an Array answer
Elem == {VNull, VNum(50), VNum(300), VStr("j1"), VObj(TRUE), VObj(FALSE)}

SeqUpTo(S, n) == UNION {[1..k -> S] : k \in 0..n}

Arrays == {VArr(a) : a \in SeqUpTo(Elem, MaxArrayLen)}

\* every answer shape the plug-in can put on the wire
Responses == Elem \cup {VStr(""), VBool(TRUE), VBool(FALSE)} \cup Arrays

(***************************************************************************)
(* What c->tp->rpc(method, parameters) does: it returns a Value or throws. *)
(* A fault the plug-in declares carries an error code of its own choosing  *)
(* (an error code: neither LSM_ERR_OK nor LSM_ERR_JOB_STARTED).            *)
(***************************************************************************)
BackendCodes == {"LSM_ERR_VOLUME_SAME_SIZE", "LSM_ERR_INTERNAL_ERROR"}

Returned(v) == [k |-> "value", v |-> v]
Thrown(x) == [k |-> x]
ThrownLsm(code) == [k |-> "LsmException", code |-> code]
NotCalled == [k |-> "not_called"]

Outcomes ==
    {Returned(v) : v \in Responses}
        \cup {Thrown("ValueException"), Thrown("EOFException"), Thrown("other")}
        \cup {ThrownLsm(code) : code \in BackendCodes}

(***************************************************************************)
(* Allocation: err = lsm_error_create succeeds, dup = strdup succeeds.     *)
(***************************************************************************)
Mem == [err : BOOLEAN, dup : BOOLEAN]
MemOK == [err |-> TRUE, dup |-> TRUE]

(***************************************************************************)
(* Undefined behaviour.  Reading std::vector element i of an Array that    *)
(* has fewer elements either ends the process or yields some Value v[i];   *)
(* strlen(NULL) either ends the process or yields some length.             *)
(***************************************************************************)
NoGarbage == [crash |-> FALSE, v |-> <<>>]
\* the reads of elements k+1..n of a vector that has k elements
Garbages(k, n) ==
    {[crash |-> TRUE, v |-> <<>>]}
        \cup {[crash |-> FALSE, v |-> f] : f \in [(k + 1)..n -> Elem]}

\* element i of the vector r as the code reads it (r[i-1] in the source)
At(r, i, g) == IF i <= Len(r) THEN r[i] ELSE g.v[i]

StrlenNull == {"crash", "zero", "nonzero"}

(***************************************************************************)
(* The last-error slot c->error.  fresh is history: TRUE iff the record    *)
(* was stored by the call that has just returned.                          *)
(***************************************************************************)
NoError == [code |-> "NULL", fresh |-> FALSE]
ErrorRec(code) == [code |-> code, fresh |-> TRUE]
Aged(e) == [e EXCEPT !.fresh = FALSE]

(***************************************************************************)
(* Arguments.  An output slot (T **x) is a NULL pointer ("nullptr"),       *)
(* points to a NULL T* ("NULL") or to a T* the caller still holds          *)
(* ("held").  A record argument is a record of some kind, or "NULL".       *)
(***************************************************************************)
Slots == {"nullptr", "NULL", "held"}
Flags == {"0", "reserved"}
Strs == {"NULL", "", "name"}
Ptrs == {"nullptr", "ok"}

\* the job output slot: NULL, or the address of the application's handle
JobArgs == {"nullptr", "handle"}
JobSlot(jp, jobv) ==
    IF jp = "nullptr" THEN "nullptr" ELSE IF jobv = "NULL" THEN "NULL" ELSE "held"

CHECK_STR(x) == x = "NULL" \/ x = ""

CHECK_RP(x) == x # "NULL"

LSM_FLAG_UNUSED_CHECK(flags) == flags # "0"

LSM_IS_CONNECT(c) == c = "conn"

\* LSM_IS_POOL, LSM_IS_VOL, LSM_IS_SYSTEM, ...: the record's magic matches
LSM_IS(kind, rec) == rec = kind

Recs(kind) == {kind, "NULL", "other"}

(***************************************************************************)
(* CONN_SETUP: reject a connection that is none, else clear c->error.      *)
(***************************************************************************)
CONN_SETUP(c, slot) ==
    IF ~LSM_IS_CONNECT(c)
    THEN [ok |-> FALSE, error |-> slot]
    ELSE [ok |-> TRUE, error |-> NoError]

(***************************************************************************)
(* lsmErrorLog / logException                                              *)
(***************************************************************************)
lsmErrorLog(slot, error) == error

logException(slot, error, m) ==
    [rc |-> error,
     error |-> IF m.err THEN lsmErrorLog(slot, ErrorRec(error)) ELSE slot]

(***************************************************************************)
(* rpc: the one place that turns what the transport throws into a code.    *)
(* sent lists the requests written to the session channel.                 *)
(***************************************************************************)
\* faulty variants of rpcCode: a fault of the plug-in reported under a generic code; EOF caught
\* by the catch-all
rpcCode_remap(outcome) ==
    CASE outcome.k = "value" -> "LSM_ERR_OK"
      [] outcome.k = "ValueException" -> "LSM_ERR_TRANSPORT_SERIALIZATION"
      [] outcome.k = "LsmException" -> "LSM_ERR_PLUGIN_ERROR"
      [] outcome.k = "EOFException" -> "LSM_ERR_TRANSPORT_COMMUNICATION"
      [] OTHER -> "LSM_ERR_INTERNAL_ERROR"

rpcCode_eofAsInternal(outcome) ==
    CASE outcome.k = "value" -> "LSM_ERR_OK"
      [] outcome.k = "ValueException" -> "LSM_ERR_TRANSPORT_SERIALIZATION"
      [] outcome.k = "LsmException" -> outcome.code
      [] OTHER -> "LSM_ERR_INTERNAL_ERROR"

rpcCode(outcome) ==
    CASE outcome.k = "value" -> "LSM_ERR_OK"
      [] outcome.k = "ValueException" -> "LSM_ERR_TRANSPORT_SERIALIZATION"
      [] outcome.k = "LsmException" -> outcome.code
      [] outcome.k = "EOFException" -> "LSM_ERR_TRANSPORT_COMMUNICATION"
      [] OTHER -> "LSM_ERR_INTERNAL_ERROR"

\* faulty variant: the request is written again after the channel reported EOF
rpc_retry(slot, method, outcome, m) ==
    IF outcome.k = "value"
    THEN [rc |-> "LSM_ERR_OK", error |-> slot, response |-> outcome.v,
          sent |-> <<method>>]
    ELSE [rc |-> logException(slot, rpcCode(outcome), m).rc,
          error |-> logException(slot, rpcCode(outcome), m).error,
          response |-> VNull,
          sent |-> IF outcome.k = "EOFException" THEN <<method, method>>
                   ELSE <<method>>]

rpc(slot, method, outcome, m) ==
    IF outcome.k = "value"
    THEN [rc |-> "LSM_ERR_OK", error |-> slot, response |-> outcome.v,
          sent |-> <<method>>]
    ELSE [rc |-> logException(slot, rpcCode(outcome), m).rc,
          error |-> logException(slot, rpcCode(outcome), m).error,
          response |-> VNull,
          sent |-> <<method>>]

(***************************************************************************)
(* What a function hands to its caller.                                    *)
(*   rc      the code returned                                             *)
(*   error   c->error afterwards                                           *)
(*   sent    the requests written to the session channel                   *)
(*   job     the application's job handle afterwards                       *)
(*   out     the record/array/string result slot afterwards: "nullptr",    *)
(*           "NULL", "held" (what the caller had put there) or "REC"       *)
(*           (a record built by this call)                                 *)
(*   val     scalar outputs (status, percent, yes), "unset" if not written *)
(*   stage   history: where the code arose (validation, transport,         *)
(*           response, memory, ok)                                         *)
(*   proc    "running", or how the process ended inside the call           *)
(***************************************************************************)
Result(rc, error, sent, jobv, out, val, stage) ==
    [rc |-> rc, error |-> error, sent |-> sent, job |-> jobv, out |-> out,
     val |-> val, stage |-> stage, proc |-> "running"]

Rejected(rc, error, jobv, out) ==
    Result(rc, error, <<>>, jobv, out, "unset", "validation")

Ended(how, error, sent, jobv, out, val) ==
    [rc |-> "none", error |-> error, sent |-> sent, job |-> jobv, out |-> out,
     val |-> val, stage |-> "undefined", proc |-> how]

\* the stage of a code rpc() returned
RpcStage(rc) == IF rc = "LSM_ERR_OK" THEN "ok" ELSE "transport"

(***************************************************************************)
(* value_to_pool, value_to_volume, value_to_fs, value_to_ss, ...: the      *)
(* record of an object that decodes; ValueException ("throw") otherwise.   *)
(***************************************************************************)
conv(v) == IF v.ok THEN "REC" ELSE "throw"

(***************************************************************************)
(* parse_job_response(c, response, rc, job, conv)                          *)
(***************************************************************************)
parse_job_response(slot, response, rc, jobv, m, g) ==
    IF response.t # "array_t"
    THEN [val |-> "NULL", rc |-> rc, job |-> jobv, error |-> slot,
          proc |-> "running"]
    ELSE IF Len(response.a) < 2 /\ g.crash
    THEN [val |-> "NULL", rc |-> rc, job |-> jobv, error |-> slot,
          proc |-> "SIGSEGV"]
    ELSE LET r0 == At(response.a, 1, g)
             r1 == At(response.a, 2, g)
             isJob == r0.t = "string_t"
             job1 == IF isJob THEN (IF m.dup THEN r0.s ELSE "NULL") ELSE jobv
             rc1 == IF isJob THEN "LSM_ERR_JOB_STARTED" ELSE rc
         IN IF r1.t = "object_t"
            THEN IF conv(r1) = "throw"
                 THEN [val |-> "NULL",
                       rc |-> logException(slot, "LSM_ERR_INTERNAL_ERROR", m).rc,
                       job |-> "NULL",
                       error |-> logException(slot, "LSM_ERR_INTERNAL_ERROR", m).error,
                       proc |-> "running"]
                 ELSE [val |-> conv(r1), rc |-> rc1, job |-> job1,
                       error |-> slot, proc |-> "running"]
            ELSE [val |-> "NULL", rc |-> rc1, job |-> job1, error |-> slot,
                  proc |-> "running"]

\* the tail shared by the calls that end in parse_job_response
job_or_result(r, jobv, m, g) ==
    IF r.rc = "LSM_ERR_OK"
    THEN LET p == parse_job_response(r.error, r.response, r.rc, jobv, m, g)
         IN IF p.proc # "running"
            THEN Ended(p.proc, p.error, r.sent, p.job, "NULL", "unset")
            ELSE Result(p.rc, p.error, r.sent, p.job, p.val, "unset",
                        IF p.rc \in {"LSM_ERR_OK", "LSM_ERR_JOB_STARTED"}
                        THEN "ok" ELSE "response")
    ELSE Result(r.rc, r.error, r.sent, jobv, "NULL", "unset", "transport")

(***************************************************************************)
(* lsm_connect_timeout_set: one of the calls that are CONN_SETUP, a flag   *)
(* check and a bare rpc().                                                 *)
(***************************************************************************)
connect_timeout_set(c, slot, jobv, flags, outcome, m) ==
    IF ~CONN_SETUP(c, slot).ok
    THEN Rejected("LSM_ERR_INVALID_CONN", CONN_SETUP(c, slot).error, jobv, "nullptr")
    ELSE IF LSM_FLAG_UNUSED_CHECK(flags)
    THEN Rejected("LSM_ERR_INVALID_ARGUMENT", CONN_SETUP(c, slot).error, jobv, "nullptr")
    ELSE LET r == rpc(CONN_SETUP(c, slot).error, "time_out_set", outcome, m)
         IN Result(r.rc, r.error, r.sent, jobv, "nullptr", "unset", RpcStage(r.rc))

(***************************************************************************)
(* jobStatus(c, job, status, percentComplete, returned_value, flags)       *)
(*   returns the Result and returned_value (rv)                            *)
(***************************************************************************)
jobStatus(c, slot, jobv, statusp, percentp, outcome, m, g) ==
    IF ~CONN_SETUP(c, slot).ok
    THEN [res |-> Rejected("LSM_ERR_INVALID_CONN", CONN_SETUP(c, slot).error,
                           jobv, "nullptr"),
          rv |-> VNull]
    ELSE IF jobv = "NULL" \/ statusp = "nullptr" \/ percentp = "nullptr"
    THEN [res |-> Rejected("LSM_ERR_INVALID_ARGUMENT", CONN_SETUP(c, slot).error,
                           jobv, "nullptr"),
          rv |-> VNull]
    ELSE LET r == rpc(CONN_SETUP(c, slot).error, "job_status", outcome, m)
             thrown == logException(r.error, "LSM_ERR_INTERNAL_ERROR", m)
         IN IF r.rc # "LSM_ERR_OK"
            THEN [res |-> Result(r.rc, r.error, r.sent, jobv, "nullptr",
                                 "unset", "transport"),
                  rv |-> VNull]
            ELSE IF r.response.t # "array_t"
            THEN [res |-> Result(thrown.rc, thrown.error, r.sent, jobv,
                                 "nullptr", "unset", "response"),
                  rv |-> VNull]
            ELSE IF Len(r.response.a) < 3 /\ g.crash
            THEN [res |-> Ended("SIGSEGV", r.error, r.sent, jobv, "nullptr",
                                "unset"),
                  rv |-> VNull]
            ELSE LET j0 == At(r.response.a, 1, g)
                     j1 == At(r.response.a, 2, g)
                     j2 == At(r.response.a, 3, g)
                 IN IF j0.t # "numeric_t"
                    THEN [res |-> Result(thrown.rc, thrown.error, r.sent, jobv,
                                         "nullptr", "unset", "response"),
                          rv |-> VNull]
                    ELSE IF j1.t # "numeric_t"
                    THEN [res |-> Result(thrown.rc, thrown.error, r.sent, jobv,
                                         "nullptr", <<j0.n>>, "response"),
                          rv |-> VNull]
                    ELSE [res |-> Result("LSM_ERR_OK", r.error, r.sent, jobv,
                                         "nullptr", <<j0.n, j1.n % 256>>, "ok"),
                          rv |-> j2]

(***************************************************************************)
(* lsm_job_status_get                                                      *)
(***************************************************************************)
job_status_get(c, slot, jobv, statusp, percentp, flags, outcome, m, g) ==
    IF ~CONN_SETUP(c, slot).ok
    THEN Rejected("LSM_ERR_INVALID_CONN", CONN_SETUP(c, slot).error, jobv, "nullptr")
    ELSE IF LSM_FLAG_UNUSED_CHECK(flags)
    THEN Rejected("LSM_ERR_INVALID_ARGUMENT", CONN_SETUP(c, slot).error, jobv, "nullptr")
    ELSE jobStatus(c, CONN_SETUP(c, slot).error, jobv, statusp, percentp,
                   outcome, m, g).res

(***************************************************************************)
(* The try block of lsm_job_status_{pool,volume,fs,ss}_get: jobStatus and  *)
(* the decoding of returned_value into the record slot.                    *)
(***************************************************************************)
\* faulty variant: the record in element 2 is not decoded
job_status_record_dropObject(c, slot, jobv, statusp, percentp, rs, outcome, m, g) ==
    LET s == jobStatus(c, slot, jobv, statusp, percentp, outcome, m, g)
    IN IF s.res.proc # "running" \/ s.res.rc # "LSM_ERR_OK"
       THEN [s.res EXCEPT !.out = rs]
       ELSE [s.res EXCEPT !.out = "NULL"]

job_status_record(c, slot, jobv, statusp, percentp, rs, outcome, m, g) ==
    LET s == jobStatus(c, slot, jobv, statusp, percentp, outcome, m, g)
        thrown == logException(s.res.error, "LSM_ERR_INTERNAL_ERROR", m)
    IN IF s.res.proc # "running" \/ s.res.rc # "LSM_ERR_OK"
       THEN [s.res EXCEPT !.out = rs]
       ELSE IF s.rv.t = "object_t"
       THEN IF conv(s.rv) = "throw"
            THEN [s.res EXCEPT !.rc = thrown.rc, !.error = thrown.error,
                               !.out = rs, !.stage = "response"]
            ELSE [s.res EXCEPT !.out = conv(s.rv)]
       ELSE [s.res EXCEPT !.out = "NULL"]

(***************************************************************************)
(* lsm_job_status_volume_get (lsm_job_status_pool_get is the same code)    *)
(***************************************************************************)
job_status_volume_get(c, slot, jobv, statusp, percentp, vol, flags, outcome, m, g) ==
    IF ~CONN_SETUP(c, slot).ok
    THEN Rejected("LSM_ERR_INVALID_CONN", CONN_SETUP(c, slot).error, jobv, vol)
    ELSE IF CHECK_RP(vol) \/ LSM_FLAG_UNUSED_CHECK(flags)
    THEN Rejected("LSM_ERR_INVALID_ARGUMENT", CONN_SETUP(c, slot).error, jobv, vol)
    ELSE job_status_record(c, CONN_SETUP(c, slot).error, jobv, statusp,
                           percentp, vol, outcome, m, g)

(***************************************************************************)
(* lsm_job_status_fs_get (lsm_job_status_ss_get is the same code): the     *)
(* arguments are checked before jobStatus runs CONN_SETUP.                 *)
(***************************************************************************)
job_status_fs_get(c, slot, jobv, statusp, percentp, fs, flags, outcome, m, g) ==
    IF CHECK_RP(fs) \/ LSM_FLAG_UNUSED_CHECK(flags)
    THEN Rejected("LSM_ERR_INVALID_ARGUMENT", slot, jobv, fs)
    ELSE job_status_record(c, slot, jobv, statusp, percentp, fs, outcome, m, g)

(***************************************************************************)
(* lsm_job_free                                                            *)
(*   ub: what strlen does when the handle holds NULL                       *)
(***************************************************************************)
\* faulty variant: the handle keeps the id after the job was freed
job_free_keepHandle(c, slot, jp, jobv, flags, outcome, m, ub) ==
    IF ~CONN_SETUP(c, slot).ok
    THEN Rejected("LSM_ERR_INVALID_CONN", CONN_SETUP(c, slot).error, jobv, "nullptr")
    ELSE IF jp = "nullptr"
    THEN Rejected("LSM_ERR_INVALID_ARGUMENT", CONN_SETUP(c, slot).error, jobv, "nullptr")
    ELSE IF jobv = "NULL" /\ ub = "crash"
    THEN Ended("SIGSEGV", CONN_SETUP(c, slot).error, <<>>, jobv, "nullptr", "unset")
    ELSE IF (jobv = "NULL" /\ ub = "zero") \/ jobv = ""
            \/ LSM_FLAG_UNUSED_CHECK(flags)
    THEN Rejected("LSM_ERR_INVALID_ARGUMENT", CONN_SETUP(c, slot).error, jobv, "nullptr")
    ELSE LET r == rpc(CONN_SETUP(c, slot).error, "job_free", outcome, m)
         IN Result(r.rc, r.error, r.sent, jobv, "nullptr", "unset", RpcStage(r.rc))

job_free(c, slot, jp, jobv, flags, outcome, m, ub) ==
    IF ~CONN_SETUP(c, slot).ok
    THEN Rejected("LSM_ERR_INVALID_CONN", CONN_SETUP(c, slot).error, jobv, "nullptr")
    ELSE IF jp = "nullptr"
    THEN Rejected("LSM_ERR_INVALID_ARGUMENT", CONN_SETUP(c, slot).error, jobv, "nullptr")
    ELSE IF jobv = "NULL" /\ ub = "crash"
    THEN Ended("SIGSEGV", CONN_SETUP(c, slot).error, <<>>, jobv, "nullptr", "unset")
    ELSE IF (jobv = "NULL" /\ ub = "zero") \/ jobv = ""
            \/ LSM_FLAG_UNUSED_CHECK(flags)
    THEN Rejected("LSM_ERR_INVALID_ARGUMENT", CONN_SETUP(c, slot).error, jobv, "nullptr")
    ELSE LET r == rpc(CONN_SETUP(c, slot).error, "job_free", outcome, m)
         IN Result(r.rc, r.error, r.sent,
                   IF r.rc = "LSM_ERR_OK" THEN "NULL" ELSE jobv,
                   "nullptr", "unset", RpcStage(r.rc))

(***************************************************************************)
(* valid_pool_raid_type / valid_pool_member_type                           *)
(***************************************************************************)
valid_pool_raid_type(validate) == validate = "valid"

valid_pool_member_type(validate) == validate = "valid"

Enums == {"valid", "invalid"}

(***************************************************************************)
(* lsm_pool_create                                                         *)
(***************************************************************************)
pool_create(c, slot, system, pool_name, size_bytes, raid_type, member_type, pool, jp, jobv, flags, outcome, m, g) ==
    IF ~CONN_SETUP(c, slot).ok
    THEN Rejected("LSM_ERR_INVALID_CONN", CONN_SETUP(c, slot).error, jobv, pool)
    ELSE IF ~LSM_IS("system", system)
    THEN Rejected("LSM_ERR_INVALID_SYSTEM", CONN_SETUP(c, slot).error, jobv, pool)
    ELSE IF CHECK_STR(pool_name) \/ size_bytes = 0 \/ CHECK_RP(pool)
            \/ CHECK_RP(JobSlot(jp, jobv)) \/ LSM_FLAG_UNUSED_CHECK(flags)
            \/ ~valid_pool_raid_type(raid_type)
            \/ ~valid_pool_member_type(member_type)
    THEN Rejected("LSM_ERR_INVALID_ARGUMENT", CONN_SETUP(c, slot).error, jobv, pool)
    ELSE job_or_result(rpc(CONN_SETUP(c, slot).error, "pool_create", outcome, m),
                       jobv, m, g)

(***************************************************************************)
(* lsm_pool_create_from (static) and lsm_pool_create_from_volumes, which   *)
(* checks its array before lsm_pool_create_from runs CONN_SETUP            *)
(***************************************************************************)
pool_create_from(c, slot, system, pool_name, raid_type, pool, jp, jobv, flags, method, outcome, m, g) ==
    IF ~CONN_SETUP(c, slot).ok
    THEN Rejected("LSM_ERR_INVALID_CONN", CONN_SETUP(c, slot).error, jobv, pool)
    ELSE IF ~LSM_IS("system", system)
    THEN Rejected("LSM_ERR_INVALID_SYSTEM", CONN_SETUP(c, slot).error, jobv, pool)
    ELSE IF CHECK_STR(pool_name) \/ CHECK_RP(pool)
            \/ CHECK_RP(JobSlot(jp, jobv)) \/ LSM_FLAG_UNUSED_CHECK(flags)
            \/ ~valid_pool_raid_type(raid_type)
    THEN Rejected("LSM_ERR_INVALID_ARGUMENT", CONN_SETUP(c, slot).error, jobv, pool)
    ELSE job_or_result(rpc(CONN_SETUP(c, slot).error, method, outcome, m),
                       jobv, m, g)

pool_create_from_volumes(c, slot, system, pool_name, volumes, num_volumes, raid_type, pool, jp, jobv, flags, outcome, m, g) ==
    IF volumes = "NULL" \/ num_volumes = 0
    THEN Rejected("LSM_ERR_INVALID_ARGUMENT", slot, jobv, pool)
    ELSE pool_create_from(c, slot, system, pool_name, raid_type, pool, jp,
                          jobv, flags, "pool_create_from_volumes", outcome, m, g)

(***************************************************************************)
(* lsm_volume_create                                                       *)
(***************************************************************************)
volume_create(c, slot, pool, volumeName, size, newVolume, jp, jobv, flags, outcome, m, g) ==
    IF ~CONN_SETUP(c, slot).ok
    THEN Rejected("LSM_ERR_INVALID_CONN", CONN_SETUP(c, slot).error, jobv, newVolume)
    ELSE IF ~LSM_IS("pool", pool)
    THEN Rejected("LSM_ERR_INVALID_POOL", CONN_SETUP(c, slot).error, jobv, newVolume)
    ELSE IF CHECK_STR(volumeName) \/ size = 0 \/ CHECK_RP(newVolume)
            \/ CHECK_RP(JobSlot(jp, jobv)) \/ LSM_FLAG_UNUSED_CHECK(flags)
    THEN Rejected("LSM_ERR_INVALID_ARGUMENT", CONN_SETUP(c, slot).error, jobv, newVolume)
    ELSE job_or_result(rpc(CONN_SETUP(c, slot).error, "volume_create", outcome, m),
                       jobv, m, g)

(***************************************************************************)
(* jobCheck(c, rc, response, job): a string answer is a job id, any other  *)
(* answer leaves no job.  The string is read only after its type was       *)
(* tested, so the catch clause is never entered.                           *)
(***************************************************************************)
\* faulty variant: a string answer is taken for a plain success
jobCheck_ignoreString(slot, rc, response, jobv, m) ==
    IF rc # "LSM_ERR_OK"
    THEN [rc |-> rc, job |-> jobv, error |-> slot]
    ELSE [rc |-> rc, job |-> "NULL", error |-> slot]

jobCheck(slot, rc, response, jobv, m) ==
    IF rc # "LSM_ERR_OK"
    THEN [rc |-> rc, job |-> jobv, error |-> slot]
    ELSE IF response.t = "string_t"
    THEN [rc |-> IF m.dup THEN "LSM_ERR_JOB_STARTED" ELSE "LSM_ERR_NO_MEMORY",
          job |-> IF m.dup THEN response.s ELSE "NULL",
          error |-> slot]
    ELSE [rc |-> rc, job |-> "NULL", error |-> slot]

\* the stage of a code jobCheck (or the same code inline) returned
JobStage(rrc, rc) ==
    IF rrc # "LSM_ERR_OK" THEN "transport"
    ELSE IF rc = "LSM_ERR_NO_MEMORY" THEN "memory" ELSE "ok"

(***************************************************************************)
(* lsm_volume_child_dependency_delete: one of the calls that end in        *)
(* jobCheck.                                                               *)
(***************************************************************************)
volume_child_dependency_delete(c, slot, volume, jp, jobv, flags, outcome, m) ==
    IF ~CONN_SETUP(c, slot).ok
    THEN Rejected("LSM_ERR_INVALID_CONN", CONN_SETUP(c, slot).error, jobv, "nullptr")
    ELSE IF ~LSM_IS("volume", volume)
    THEN Rejected("LSM_ERR_INVALID_VOL", CONN_SETUP(c, slot).error, jobv, "nullptr")
    ELSE IF CHECK_RP(JobSlot(jp, jobv)) \/ LSM_FLAG_UNUSED_CHECK(flags)
    THEN Rejected("LSM_ERR_INVALID_ARGUMENT", CONN_SETUP(c, slot).error, jobv, "nullptr")
    ELSE LET r == rpc(CONN_SETUP(c, slot).error, "volume_child_dependency_rm",
                      outcome, m)
             j == jobCheck(r.error, r.rc, r.response, jobv, m)
         IN Result(j.rc, j.error, r.sent, j.job, "nullptr", "unset",
                   JobStage(r.rc, j.rc))

(***************************************************************************)
(* lsm_pool_delete: the code of jobCheck inline, without the assignment    *)
(* of NULL to the handle for an answer that is no string.                  *)
(***************************************************************************)
pool_delete(c, slot, pool, jp, jobv, flags, outcome, m) ==
    IF ~CONN_SETUP(c, slot).ok
    THEN Rejected("LSM_ERR_INVALID_CONN", CONN_SETUP(c, slot).error, jobv, "nullptr")
    ELSE IF ~LSM_IS("pool", pool)
    THEN Rejected("LSM_ERR_INVALID_POOL", CONN_SETUP(c, slot).error, jobv, "nullptr")
    ELSE IF CHECK_RP(JobSlot(jp, jobv)) \/ LSM_FLAG_UNUSED_CHECK(flags)
    THEN Rejected("LSM_ERR_INVALID_ARGUMENT", CONN_SETUP(c, slot).error, jobv, "nullptr")
    ELSE LET r == rpc(CONN_SETUP(c, slot).error, "pool_delete", outcome, m)
         IN IF r.rc = "LSM_ERR_OK" /\ r.response.t = "string_t"
            THEN IF m.dup
                 THEN Result("LSM_ERR_JOB_STARTED", r.error, r.sent,
                             r.response.s, "nullptr", "unset", "ok")
                 ELSE Result("LSM_ERR_NO_MEMORY", r.error, r.sent, "NULL",
                             "nullptr", "unset", "memory")
            ELSE Result(r.rc, r.error, r.sent, jobv, "nullptr", "unset",
                        RpcStage(r.rc))

(***************************************************************************)
(* lsm_volume_resize.  The volume has block_size and number_of_blocks; the *)
(* same-size test divides newSize by block_size.                           *)
(*   div0: what the division does when block_size is 0 (undefined          *)
(*         behaviour): the process ends, or the quotient is some number    *)
(***************************************************************************)
DivByZero == {"SIGFPE", "zero", "nonzero"}

\* faulty variant: the size in bytes is compared with the number of blocks
Blocks_bytes(newSize, block_size, div0) == newSize

\* newSize / volume->block_size as the machine computes it
Blocks(newSize, block_size, div0) ==
    IF block_size # 0 THEN newSize \div block_size
    ELSE IF div0 = "zero" THEN 0 ELSE 1

volume_resize(c, slot, volume, newSize, block_size, number_of_blocks, resizedVolume, jp, jobv, flags, outcome, m, g, div0) ==
    IF ~CONN_SETUP(c, slot).ok
    THEN Rejected("LSM_ERR_INVALID_CONN", CONN_SETUP(c, slot).error, jobv, resizedVolume)
    ELSE IF ~LSM_IS("volume", volume)
    THEN Rejected("LSM_ERR_INVALID_VOL", CONN_SETUP(c, slot).error, jobv, resizedVolume)
    ELSE IF newSize = 0 \/ CHECK_RP(resizedVolume) \/ CHECK_RP(JobSlot(jp, jobv))
            \/ LSM_FLAG_UNUSED_CHECK(flags)
    THEN Rejected("LSM_ERR_INVALID_ARGUMENT", CONN_SETUP(c, slot).error, jobv, resizedVolume)
    ELSE IF block_size = 0 /\ div0 = "SIGFPE"
    THEN Ended("SIGFPE", CONN_SETUP(c, slot).error, <<>>, jobv, resizedVolume, "unset")
    ELSE IF Blocks(newSize, block_size, div0) = number_of_blocks
    THEN Rejected("LSM_ERR_VOLUME_SAME_SIZE", CONN_SETUP(c, slot).error, jobv, resizedVolume)
    ELSE job_or_result(rpc(CONN_SETUP(c, slot).error, "volume_resize", outcome, m),
                       jobv, m, g)

(***************************************************************************)
(* lsm_volume_child_dependency: a boolean answer; any other answer is      *)
(* LSM_ERR_INTERNAL_ERROR, assigned without logException.                  *)
(***************************************************************************)
volume_child_dependency(c, slot, volume, yes, jobv, flags, outcome, m) ==
    IF ~CONN_SETUP(c, slot).ok
    THEN Rejected("LSM_ERR_INVALID_CONN", CONN_SETUP(c, slot).error, jobv, "nullptr")
    ELSE IF ~LSM_IS("volume", volume)
    THEN Rejected("LSM_ERR_INVALID_VOL", CONN_SETUP(c, slot).error, jobv, "nullptr")
    ELSE IF yes = "nullptr" \/ LSM_FLAG_UNUSED_CHECK(flags)
    THEN Rejected("LSM_ERR_INVALID_ARGUMENT", CONN_SETUP(c, slot).error, jobv, "nullptr")
    ELSE LET r == rpc(CONN_SETUP(c, slot).error, "volume_child_dependency",
                      outcome, m)
         IN IF r.rc # "LSM_ERR_OK"
            THEN Result(r.rc, r.error, r.sent, jobv, "nullptr", <<0>>, "transport")
            ELSE IF r.response.t = "boolean_t"
            THEN Result("LSM_ERR_OK", r.error, r.sent, jobv, "nullptr",
                        IF r.response.b THEN <<1>> ELSE <<0>>, "ok")
            ELSE Result("LSM_ERR_INTERNAL_ERROR", r.error, r.sent, jobv,
                        "nullptr", <<0>>, "response")

(***************************************************************************)
(* lsm_nfs_export_fs: value_to_nfs_export runs outside any try block, so   *)
(* its ValueException leaves the function.                                 *)
(***************************************************************************)
Lists == {"NULL", "string_list", "other"}

nfs_export_fs(c, slot, fs_id, root_list, rw_list, ro_list, exported, jobv, flags, outcome, m) ==
    IF ~CONN_SETUP(c, slot).ok
    THEN Rejected("LSM_ERR_INVALID_CONN", CONN_SETUP(c, slot).error, jobv, exported)
    ELSE IF \E l \in {root_list, rw_list, ro_list} :
                l # "NULL" /\ ~LSM_IS("string_list", l)
    THEN Rejected("LSM_ERR_INVALID_SL", CONN_SETUP(c, slot).error, jobv, exported)
    ELSE IF CHECK_STR(fs_id) \/ CHECK_RP(exported)
            \/ (root_list = "NULL" /\ rw_list = "NULL" /\ ro_list = "NULL")
            \/ LSM_FLAG_UNUSED_CHECK(flags)
    THEN Rejected("LSM_ERR_INVALID_ARGUMENT", CONN_SETUP(c, slot).error, jobv, exported)
    ELSE LET r == rpc(CONN_SETUP(c, slot).error, "export_fs", outcome, m)
         IN IF r.rc = "LSM_ERR_OK" /\ r.response.t = "object_t"
            THEN IF conv(r.response) = "throw"
                 THEN Ended("uncaught ValueException", r.error, r.sent, jobv,
                            exported, "unset")
                 ELSE Result(r.rc, r.error, r.sent, jobv, conv(r.response),
                             "unset", "ok")
            ELSE Result(r.rc, r.error, r.sent, jobv, exported, "unset",
                        RpcStage(r.rc))

(***************************************************************************)
(* lsm_connect_password, after its argument check                          *)
(*   uri: "garbage" (xmlParseURI fails), "noscheme" (parses, no scheme),   *)
(*        "sim://" (parses, has a scheme)                                  *)
(*   got: connection_get returned a connection; dupOK: strdup(uri) did     *)
(*   drc: what driver_load (plug-in lookup and handshake) returns          *)
(*   out is *conn; got, freed, load count connection_get, connection_free  *)
(*   and driver_load calls.                                                *)
(***************************************************************************)
Uris == {"NULL", "", "garbage", "noscheme", "sim://"}

xmlParseURI(uri) ==
    CASE uri = "sim://" -> [scheme |-> "sim"]
      [] uri = "noscheme" -> [scheme |-> "NULL"]
      [] OTHER -> [scheme |-> "unparsed"]

DriverLoadCodes ==
    {"LSM_ERR_OK", "LSM_ERR_NO_MEMORY", "LSM_ERR_TRANSPORT_COMMUNICATION"}

\* faulty variant: only c->uri is tested, not c->uri->scheme
connect_password_anyUri(uri, cs, timeout, es, flags, got, dupOK, drc) ==
    IF CHECK_STR(uri) \/ CHECK_RP(cs) \/ timeout = 0 \/ CHECK_RP(es)
         \/ LSM_FLAG_UNUSED_CHECK(flags)
    THEN [rc |-> "LSM_ERR_INVALID_ARGUMENT", out |-> cs, stage |-> "validation",
          got |-> 0, freed |-> 0, load |-> 0]
    ELSE IF ~got
    THEN [rc |-> "LSM_ERR_NO_MEMORY", out |-> cs, stage |-> "memory",
          got |-> 0, freed |-> 0, load |-> 0]
    ELSE LET schemeOK == xmlParseURI(uri).scheme # "unparsed"
             rc == IF schemeOK
                   THEN IF dupOK THEN drc ELSE "LSM_ERR_NO_MEMORY"
                   ELSE "LSM_ERR_INVALID_URI"
         IN [rc |-> rc,
             out |-> IF rc = "LSM_ERR_OK" THEN "conn" ELSE cs,
             stage |-> "connect",
             got |-> 1,
             freed |-> IF rc # "LSM_ERR_OK" THEN 1 ELSE 0,
             load |-> IF schemeOK /\ dupOK THEN 1 ELSE 0]

\* faulty variant: the connection is not freed when the copy of the URI fails
connect_password_leak(uri, cs, timeout, es, flags, got, dupOK, drc) ==
    IF CHECK_STR(uri) \/ CHECK_RP(cs) \/ timeout = 0 \/ CHECK_RP(es)
         \/ LSM_FLAG_UNUSED_CHECK(flags)
    THEN [rc |-> "LSM_ERR_INVALID_ARGUMENT", out |-> cs, stage |-> "validation",
          got |-> 0, freed |-> 0, load |-> 0]
    ELSE IF ~got
    THEN [rc |-> "LSM_ERR_NO_MEMORY", out |-> cs, stage |-> "memory",
          got |-> 0, freed |-> 0, load |-> 0]
    ELSE LET schemeOK == xmlParseURI(uri).scheme \notin {"unparsed", "NULL"}
             rc == IF schemeOK
                   THEN IF dupOK THEN drc ELSE "LSM_ERR_NO_MEMORY"
                   ELSE "LSM_ERR_INVALID_URI"
         IN [rc |-> rc,
             out |-> IF rc = "LSM_ERR_OK" THEN "conn" ELSE cs,
             stage |-> "connect",
             got |-> 1,
             freed |-> IF rc # "LSM_ERR_OK" /\ (dupOK \/ ~schemeOK) THEN 1 ELSE 0,
             load |-> IF schemeOK /\ dupOK THEN 1 ELSE 0]

connect_password(uri, cs, timeout, es, flags, got, dupOK, drc) ==
    IF CHECK_STR(uri) \/ CHECK_RP(cs) \/ timeout = 0 \/ CHECK_RP(es)
         \/ LSM_FLAG_UNUSED_CHECK(flags)
    THEN [rc |-> "LSM_ERR_INVALID_ARGUMENT", out |-> cs, stage |-> "validation",
          got |-> 0, freed |-> 0, load |-> 0]
    ELSE IF ~got
    THEN [rc |-> "LSM_ERR_NO_MEMORY", out |-> cs, stage |-> "memory",
          got |-> 0, freed |-> 0, load |-> 0]
    ELSE LET schemeOK == xmlParseURI(uri).scheme \notin {"unparsed", "NULL"}
             rc == IF schemeOK
                   THEN IF dupOK THEN drc ELSE "LSM_ERR_NO_MEMORY"
                   ELSE "LSM_ERR_INVALID_URI"
         IN [rc |-> rc,
             out |-> IF rc = "LSM_ERR_OK" THEN "conn" ELSE cs,
             stage |-> "connect",
             got |-> 1,
             freed |-> IF rc # "LSM_ERR_OK" THEN 1 ELSE 0,
             load |-> IF schemeOK /\ dupOK THEN 1 ELSE 0]

(***************************************************************************)
(* lsm_connect_close: the shutdown request, then connection_free whatever  *)
(* the request returned.                                                   *)
(***************************************************************************)
\* faulty variant: the connection is freed only when the shutdown request succeeded
connect_close_keepOnError(c, slot, jobv, flags, outcome, m) ==
    IF ~CONN_SETUP(c, slot).ok
    THEN [res |-> Rejected("LSM_ERR_INVALID_CONN", CONN_SETUP(c, slot).error,
                           jobv, "nullptr"),
          freed |-> 0]
    ELSE IF LSM_FLAG_UNUSED_CHECK(flags)
    THEN [res |-> Rejected("LSM_ERR_INVALID_ARGUMENT", CONN_SETUP(c, slot).error,
                           jobv, "nullptr"),
          freed |-> 0]
    ELSE LET r == rpc(CONN_SETUP(c, slot).error, "shutdown", outcome, m)
         IN [res |-> Result(r.rc, r.error, r.sent, jobv, "nullptr", "unset",
                            RpcStage(r.rc)),
             freed |-> IF r.rc = "LSM_ERR_OK" THEN 1 ELSE 0]

connect_close(c, slot, jobv, flags, outcome, m) ==
    IF ~CONN_SETUP(c, slot).ok
    THEN [res |-> Rejected("LSM_ERR_INVALID_CONN", CONN_SETUP(c, slot).error,
                           jobv, "nullptr"),
          freed |-> 0]
    ELSE IF LSM_FLAG_UNUSED_CHECK(flags)
    THEN [res |-> Rejected("LSM_ERR_INVALID_ARGUMENT", CONN_SETUP(c, slot).error,
                           jobv, "nullptr"),
          freed |-> 0]
    ELSE LET r == rpc(CONN_SETUP(c, slot).error, "shutdown", outcome, m)
         IN [res |-> Result(r.rc, r.error, r.sent, jobv, "nullptr", "unset",
                            RpcStage(r.rc)),
             freed |-> 1]

(***************************************************************************)
(* lsm_plugin_info_get(c, desc, version, flags).  The answer is read as    *)
(* an Array of two strings.  *desc and *version are "NULL", a string, or   *)
(* "freed" (the pointer is still stored after free).                       *)
(*   m.dup, dupV: strdup of the description, of the version, succeeds      *)
(* The record returned is a Result with the two outputs as desc, version;  *)
(* out sums them up: "NULL" (both NULL), "REC" (both strings), "freed".    *)
(***************************************************************************)
InfoOut(desc, version) ==
    IF desc = "NULL" /\ version = "NULL" THEN "NULL"
    ELSE IF "freed" \in {desc, version} THEN "freed"
    ELSE IF "nullptr" \in {desc, version} THEN "nullptr"
    ELSE IF "held" \in {desc, version} THEN "held"
    ELSE "REC"

Info(res, desc, version) ==
    [rc |-> res.rc, error |-> res.error, sent |-> res.sent, job |-> res.job,
     out |-> InfoOut(desc, version), val |-> res.val, stage |-> res.stage,
     proc |-> res.proc, desc |-> desc, version |-> version]

\* lines 230-248: what is made of the outcome r of the rpc() call
plugin_info_response(r, desc, version, jobv, m, dupV, g) ==
    LET thrown == logException(r.error, "LSM_ERR_INTERNAL_ERROR", m)
        caught == Info(Result(thrown.rc, thrown.error, r.sent, jobv, "NULL",
                              "unset", "response"),
                       "NULL", "NULL")
    IN IF r.rc # "LSM_ERR_OK"
       THEN Info(Result(r.rc, r.error, r.sent, jobv, "NULL", "unset",
                        "transport"),
                 desc, version)
       ELSE IF r.response.t # "array_t"
       THEN caught
       ELSE IF Len(r.response.a) < 2 /\ g.crash
       THEN Info(Ended("SIGSEGV", r.error, r.sent, jobv, "NULL", "unset"),
                 desc, version)
       ELSE LET j0 == At(r.response.a, 1, g)
                j1 == At(r.response.a, 2, g)
            IN IF j0.t # "string_t" \/ j1.t # "string_t"
               THEN caught
               ELSE IF m.dup /\ dupV
               THEN Info(Result("LSM_ERR_OK", r.error, r.sent, jobv, "REC",
                                "unset", "ok"),
                         j0.s, j1.s)
               ELSE Info(Result("LSM_ERR_NO_MEMORY", r.error, r.sent, jobv,
                                "freed", "unset", "memory"),
                         IF m.dup THEN "freed" ELSE "NULL",
                         IF dupV THEN "freed" ELSE "NULL")

plugin_info_get(c, slot, desc, version, jobv, flags, outcome, m, dupV, g) ==
    IF ~CONN_SETUP(c, slot).ok
    THEN Info(Rejected("LSM_ERR_INVALID_CONN", CONN_SETUP(c, slot).error, jobv, "NULL"),
              desc, version)
    ELSE IF LSM_FLAG_UNUSED_CHECK(flags)
    THEN Info(Rejected("LSM_ERR_INVALID_ARGUMENT", CONN_SETUP(c, slot).error, jobv, "NULL"),
              desc, version)
    ELSE IF CHECK_RP(desc) \/ CHECK_RP(version)
    THEN Info(Rejected("LSM_ERR_INVALID_ARGUMENT", CONN_SETUP(c, slot).error, jobv, "NULL"),
              desc, version)
    ELSE plugin_info_response(rpc(CONN_SETUP(c, slot).error, "plugin_info", outcome, m),
                              desc, version, jobv, m, dupV, g)

(***************************************************************************)
(* lsm_available_plugins_list(sep, plugins, flags).                        *)
(* A directory entry (what readdir returns and what happens when the loop  *)
(* body handles it):                                                       *)
(*   d_type   "sock" or "file"                                             *)
(*   got      connection_get returns a connection                          *)
(*   drc      the code driver_load returns                                 *)
(*   outcome  what the plug-in's transport does with plugin_info           *)
(*   dupD, dupV   the strdup calls of lsm_plugin_info_get succeed          *)
(*   fmt      asprintf succeeds                                            *)
(*   app      the code lsm_string_list_append returns                      *)
(***************************************************************************)
Seps == {"NULL", "", ":"}

Sock(desc, version) ==
    [d_type |-> "sock", got |-> TRUE, drc |-> "LSM_ERR_OK",
     outcome |-> Returned(VArr(<<VStr(desc), VStr(version)>>)),
     dupD |-> TRUE, dupV |-> TRUE, fmt |-> TRUE, app |-> "LSM_ERR_OK"]

DirEntries ==
    {Sock("a", "1"), Sock("b", "2"),
     [Sock("a", "1") EXCEPT !.d_type = "file"],
     [Sock("a", "1") EXCEPT !.got = FALSE],
     [Sock("a", "1") EXCEPT !.drc = "LSM_ERR_TRANSPORT_COMMUNICATION"],
     [Sock("a", "1") EXCEPT !.outcome = Thrown("EOFException")],
     [Sock("a", "1") EXCEPT !.outcome = Returned(VNull)],
     [Sock("a", "1") EXCEPT !.outcome = Returned(VArr(<<VStr("a")>>))],
     [Sock("a", "1") EXCEPT !.dupV = FALSE],
     [Sock("a", "1") EXCEPT !.fmt = FALSE],
     [Sock("a", "1") EXCEPT !.app = "LSM_ERR_NO_MEMORY"]}

Dirs == SeqUpTo(DirEntries, MaxDirLen)

\* asprintf(&s, "%s%s%s", desc, sep, version)
asprintf(desc, sep, version) == desc \o sep \o version

\* the locals of the function before the loop
ScanStart ==
    [rc |-> "LSM_ERR_OK", list |-> <<>>, desc |-> "NULL", version |-> "NULL",
     c |-> FALSE, got |-> 0, freed |-> 0, load |-> 0, stop |-> FALSE,
     proc |-> "running"]

\* lines 289-318: the entry is a socket and connection_get gave a
\* connection (counted in st1); info is what lsm_plugin_info_get does
ScanSocket(st1, e, sep, info) ==
    IF e.drc # "LSM_ERR_OK"
    THEN [st1 EXCEPT !.rc = e.drc, !.c = TRUE, !.stop = TRUE]
    ELSE IF info.proc # "running"
    THEN [st1 EXCEPT !.c = TRUE, !.stop = TRUE, !.proc = info.proc]
    ELSE IF info.rc # "LSM_ERR_OK"
    THEN [st1 EXCEPT !.rc = info.rc, !.desc = info.desc,
                     !.version = info.version, !.freed = @ + 1]
    ELSE IF ~e.fmt
    THEN [st1 EXCEPT !.rc = "LSM_ERR_NO_MEMORY", !.c = TRUE, !.stop = TRUE]
    ELSE IF e.app # "LSM_ERR_OK"
    THEN [st1 EXCEPT !.rc = e.app, !.c = TRUE, !.stop = TRUE]
    ELSE [st1 EXCEPT !.rc = "LSM_ERR_OK", !.freed = @ + 1,
                     !.list = Append(@, asprintf(info.desc, sep, info.version))]

\* faulty variant: d_type is not looked at
ScanEntry_anyFile(st, e, sep, g) ==
    IF ~e.got
    THEN st
    ELSE ScanSocket([st EXCEPT !.got = @ + 1, !.load = @ + 1], e, sep,
                    plugin_info_get("conn", NoError, st.desc, st.version, "NULL",
                                    "0", e.outcome, [err |-> TRUE, dup |-> e.dupD],
                                    e.dupV, g))

\* one pass of the for(;;) body over the entry e
ScanEntry(st, e, sep, g) ==
    IF e.d_type # "sock" \/ ~e.got
    THEN st
    ELSE ScanSocket([st EXCEPT !.got = @ + 1, !.load = @ + 1], e, sep,
                    plugin_info_get("conn", NoError, st.desc, st.version, "NULL",
                                    "0", e.outcome, [err |-> TRUE, dup |-> e.dupD],
                                    e.dupV, g))

\* the for(;;) loop from entry i on: until readdir returns NULL or a break
\* (after[k]: the loop's variables once entry k has been read)
Scan(st, dir, i, sep, g) ==
    LET after[k \in (i - 1)..Len(dir)] ==
            IF k < i THEN st
            ELSE IF after[k - 1].stop THEN after[k - 1]
            ELSE ScanEntry(after[k - 1], dir[k], sep, g)
    IN after[Len(dir)]

\* faulty variant: the connection a break left behind is not freed
ScanResult_leakAfterBreak(plugins, closeOK, none, st) ==
    LET rc == IF ~closeOK THEN "LSM_ERR_INTERNAL_ERROR" ELSE st.rc
    IN IF st.proc # "running"
       THEN [none EXCEPT !.rc = "none", !.stage = "undefined", !.got = st.got,
                         !.freed = st.freed, !.load = st.load,
                         !.lists = "held", !.proc = st.proc]
       ELSE [rc |-> rc,
             out |-> IF rc = "LSM_ERR_OK" THEN "LIST" ELSE plugins,
             val |-> IF rc = "LSM_ERR_OK" THEN st.list ELSE "unset",
             stage |-> "scan",
             got |-> st.got,
             freed |-> st.freed,
             load |-> st.load,
             lists |-> IF rc = "LSM_ERR_OK" THEN "handed" ELSE "freed",
             proc |-> "running"]

\* lines 323-351: after the loop has left st
ScanResult(plugins, closeOK, none, st) ==
    LET rc == IF ~closeOK THEN "LSM_ERR_INTERNAL_ERROR" ELSE st.rc
    IN IF st.proc # "running"
       THEN [none EXCEPT !.rc = "none", !.stage = "undefined", !.got = st.got,
                         !.freed = st.freed, !.load = st.load,
                         !.lists = "held", !.proc = st.proc]
       ELSE [rc |-> rc,
             out |-> IF rc = "LSM_ERR_OK" THEN "LIST" ELSE plugins,
             val |-> IF rc = "LSM_ERR_OK" THEN st.list ELSE "unset",
             stage |-> "scan",
             got |-> st.got,
             freed |-> st.freed + (IF st.c THEN 1 ELSE 0),
             load |-> st.load,
             lists |-> IF rc = "LSM_ERR_OK" THEN "handed" ELSE "freed",
             proc |-> "running"]

\* the whole function; alloc: lsm_string_list_alloc succeeds, opened:
\* opendir succeeds, closeOK: closedir succeeds.  lists: what became of the
\* list allocated ("none": not allocated)
available_plugins_list(sep, plugins, flags, alloc, opened, dir, closeOK, g) ==
    LET none == [rc |-> "LSM_ERR_OK", out |-> plugins, val |-> "unset",
                 stage |-> "validation", got |-> 0, freed |-> 0, load |-> 0,
                 lists |-> "none", proc |-> "running"]
    IN IF CHECK_STR(sep) \/ CHECK_RP(plugins) \/ LSM_FLAG_UNUSED_CHECK(flags)
       THEN [none EXCEPT !.rc = "LSM_ERR_INVALID_ARGUMENT"]
       ELSE IF ~alloc
       THEN [none EXCEPT !.rc = "LSM_ERR_NO_MEMORY", !.stage = "memory"]
       ELSE IF ~opened
       THEN [none EXCEPT !.rc = "LSM_ERR_INTERNAL_ERROR", !.stage = "scan",
                         !.lists = "freed"]
       ELSE ScanResult(plugins, closeOK, none, Scan(ScanStart, dir, 1, sep, g))

(***************************************************************************)
(* The state.                                                              *)
(*   call: the Result of the call that has just returned, with             *)
(*     op       the public function                                        *)
(*     job0     the job handle before the call                             *)
(*     valid    the connection argument was a live connection              *)
(*     bad      the local preconditions the arguments broke (computed from *)
(*              the arguments, not from what the function checked)         *)
(*     outcome  what the transport did                                     *)
(*     errOK    lsm_error_create could allocate                            *)
(*     got, freed, load   connection_get, connection_free and driver_load  *)
(*              calls made                                                 *)
(*     arg      the inputs of the call that the properties speak about     *)
(***************************************************************************)
NoCall ==
    [op |-> "none", rc |-> "none", sent |-> <<>>, job0 |-> "NULL",
     out |-> "nullptr", val |-> "unset", valid |-> FALSE, bad |-> {},
     outcome |-> NotCalled, errOK |-> TRUE, stage |-> "none",
     got |-> 0, freed |-> 0, load |-> 0, arg |-> <<>>]

(***************************************************************************)
(* The list operations.  The caller passes the address of its array        *)
(* pointer (Slots: no address, pointer NULL, pointer held) and of its      *)
(* count, which holds count0 before the call.  out is what the array       *)
(* pointer is after the call ("ARR": the new array, "freed": still the     *)
(* address of an array that was freed), val is <<count after the call>>.   *)
(* m.dup: the record array can be allocated.                               *)
(***************************************************************************)
Counts == {0, 7}

\* value_to_pool, value_to_system, value_to_access_group, ... : the codec's
\* decode of one Value, which throws ValueException on anything that is not
\* an object with the record's fields
value_to_record(v) == IF v.t = "object_t" /\ v.ok THEN "REC" ELSE "throw"

Throws(a) == \E i \in 1..Len(a) : value_to_record(a[i]) = "throw"

ListResult(rc, error, sent, jobv, out, count, stage) ==
    Result(rc, error, sent, jobv, out, <<count>>, stage)

\* lines 645-666 of lsm_pool_list: what is made of the outcome r of rpc()
pool_list_response(r, poolArray, count0, jobv, m) ==
    IF r.rc # "LSM_ERR_OK"
    THEN ListResult(r.rc, r.error, r.sent, jobv, poolArray, count0, "transport")
    ELSE IF r.response.t # "array_t"
    THEN ListResult("LSM_ERR_OK", r.error, r.sent, jobv, poolArray, count0, "ok")
    ELSE IF Len(r.response.a) = 0
    THEN ListResult("LSM_ERR_OK", r.error, r.sent, jobv, poolArray, 0, "ok")
    ELSE IF ~m.dup
    THEN Ended("SIGSEGV", r.error, r.sent, jobv, "NULL", <<Len(r.response.a)>>)
    ELSE IF Throws(r.response.a)
    THEN ListResult("LSM_ERR_INTERNAL_ERROR",
                    logException(r.error, "LSM_ERR_INTERNAL_ERROR", m).error,
                    r.sent, jobv, "NULL", 0, "response")
    ELSE ListResult("LSM_ERR_OK", r.error, r.sent, jobv, "ARR",
                    Len(r.response.a), "ok")

pool_list(c, slot, poolArray, count, count0, jobv, flags, outcome, m) ==
    IF ~CONN_SETUP(c, slot).ok
    THEN ListResult("LSM_ERR_INVALID_CONN", CONN_SETUP(c, slot).error, <<>>, jobv,
                    poolArray, count0, "validation")
    ELSE IF poolArray = "nullptr" \/ count = "nullptr" \/ CHECK_RP(poolArray)
            \/ LSM_FLAG_UNUSED_CHECK(flags)
    THEN ListResult("LSM_ERR_INVALID_ARGUMENT", CONN_SETUP(c, slot).error, <<>>,
                    jobv, poolArray, count0, "validation")
    ELSE pool_list_response(rpc(CONN_SETUP(c, slot).error, "pools", outcome, m),
                            poolArray, count0, jobv, m)

\* lines 1818-1848 of lsm_system_list; rec: value_to_system can allocate
\* the record (it returns NULL otherwise)
system_list_response(r, systems, count0, jobv, m, rec) ==
    IF r.rc # "LSM_ERR_OK"
    THEN ListResult(r.rc, r.error, r.sent, jobv, systems, count0, "transport")
    ELSE IF r.response.t # "array_t"
    THEN ListResult("LSM_ERR_OK", r.error, r.sent, jobv, systems, count0, "ok")
    ELSE IF Len(r.response.a) = 0
    THEN ListResult("LSM_ERR_OK", r.error, r.sent, jobv, systems, 0, "ok")
    ELSE IF ~m.dup
    THEN ListResult("LSM_ERR_NO_MEMORY", r.error, r.sent, jobv, "NULL",
                    Len(r.response.a), "memory")
    ELSE IF value_to_record(r.response.a[1]) # "throw" /\ ~rec
    THEN ListResult("LSM_ERR_NO_MEMORY", r.error, r.sent, jobv, "freed",
                    Len(r.response.a), "memory")
    ELSE IF Throws(r.response.a)
    THEN ListResult("LSM_ERR_INTERNAL_ERROR",
                    logException(r.error, "LSM_ERR_INTERNAL_ERROR", m).error,
                    r.sent, jobv, "NULL", 0, "response")
    ELSE ListResult("LSM_ERR_OK", r.error, r.sent, jobv, "ARR",
                    Len(r.response.a), "ok")

system_list(c, slot, systems, systemCount, count0, jobv, flags, outcome, m, rec) ==
    IF ~CONN_SETUP(c, slot).ok
    THEN ListResult("LSM_ERR_INVALID_CONN", CONN_SETUP(c, slot).error, <<>>, jobv,
                    systems, count0, "validation")
    ELSE IF systems = "nullptr" \/ systemCount = "nullptr"
            \/ LSM_FLAG_UNUSED_CHECK(flags)
    THEN ListResult("LSM_ERR_INVALID_ARGUMENT", CONN_SETUP(c, slot).error, <<>>,
                    jobv, systems, count0, "validation")
    ELSE system_list_response(rpc(CONN_SETUP(c, slot).error, "systems", outcome, m),
                              systems, count0, jobv, m, rec)

\* value_array_to_disks: the codec's decode of an Array into a record array
\* and its count
value_array_to_disks(a) ==
    IF Throws(a)
    THEN [rc |-> "LSM_ERR_INTERNAL_ERROR", out |-> "NULL", count |-> 0]
    ELSE [rc |-> "LSM_ERR_OK", out |-> IF Len(a) = 0 THEN "NULL" ELSE "ARR",
          count |-> Len(a)]

\* get_disk_array
get_disk_array(r, disks, count0, jobv, m) ==
    IF r.rc # "LSM_ERR_OK"
    THEN ListResult(r.rc, r.error, r.sent, jobv, disks, count0, "transport")
    ELSE IF r.response.t # "array_t"
    THEN ListResult("LSM_ERR_OK", r.error, r.sent, jobv, disks, count0, "ok")
    ELSE IF value_array_to_disks(r.response.a).rc # "LSM_ERR_OK"
    THEN ListResult("LSM_ERR_INTERNAL_ERROR",
                    logException(r.error, "LSM_ERR_INTERNAL_ERROR", m).error,
                    r.sent, jobv, value_array_to_disks(r.response.a).out,
                    value_array_to_disks(r.response.a).count, "response")
    ELSE ListResult("LSM_ERR_OK", r.error, r.sent, jobv,
                    value_array_to_disks(r.response.a).out,
                    value_array_to_disks(r.response.a).count, "ok")

\* lsm_disk_list: flags is passed on to the plug-in without a check
disk_list(c, slot, disks, count, count0, jobv, flags, outcome, m) ==
    IF ~CONN_SETUP(c, slot).ok
    THEN ListResult("LSM_ERR_INVALID_CONN", CONN_SETUP(c, slot).error, <<>>, jobv,
                    disks, count0, "validation")
    ELSE IF CHECK_RP(disks) \/ count = "nullptr"
    THEN ListResult("LSM_ERR_INVALID_ARGUMENT", CONN_SETUP(c, slot).error, <<>>,
                    jobv, disks, count0, "validation")
    ELSE get_disk_array(rpc(CONN_SETUP(c, slot).error, "disks", outcome, m),
                        disks, count0, jobv, m)

(***************************************************************************)
(* lsm_access_group_create: value_to_access_group is called outside any    *)
(* try block, so the ValueException it throws leaves the function and,     *)
(* the caller being C, ends the process (std::terminate).                  *)
(***************************************************************************)
access_group_create_response(r, jobv) ==
    IF r.rc # "LSM_ERR_OK"
    THEN Result(r.rc, r.error, r.sent, jobv, "NULL", "unset", "transport")
    ELSE IF r.response.t # "object_t"
    THEN Result("LSM_ERR_OK", r.error, r.sent, jobv, "NULL", "unset", "ok")
    ELSE IF value_to_record(r.response) = "throw"
    THEN Ended("SIGABRT", r.error, r.sent, jobv, "NULL", "unset")
    ELSE Result("LSM_ERR_OK", r.error, r.sent, jobv, "REC", "unset", "ok")

access_group_create(c, slot, name, initiator_id, system_id, access_group, jobv, flags, outcome, m) ==
    IF ~CONN_SETUP(c, slot).ok
    THEN Rejected("LSM_ERR_INVALID_CONN", CONN_SETUP(c, slot).error, jobv, access_group)
    ELSE IF CHECK_STR(name) \/ CHECK_STR(initiator_id) \/ CHECK_STR(system_id)
            \/ CHECK_RP(access_group) \/ LSM_FLAG_UNUSED_CHECK(flags)
    THEN Rejected("LSM_ERR_INVALID_ARGUMENT", CONN_SETUP(c, slot).error, jobv,
                  access_group)
    ELSE access_group_create_response(
             rpc(CONN_SETUP(c, slot).error, "access_group_create", outcome, m), jobv)

\* threads of the application that share the one connection
Threads == {"t1", "t2"}
NoFrame == [from |-> "none", method |-> "none"]
NoThread == [pc |-> "idle", method |-> "none", rc |-> "none", got |-> NoFrame,
             calls |-> 0]
NoFrames == [req |-> <<>>, resp |-> <<>>]

\* the plug-in's job: not the simulator, and the simulator before any job
NoSim == [job |-> "off", percent |-> 0, size |-> 0, blocks |-> 0]
SimIdle == [job |-> "none", percent |-> 0, size |-> 0, blocks |-> 0]

Init ==
    /\ conn = [state |-> "none", error |-> NoError]
    /\ job = "NULL"
    /\ call = NoCall
    /\ proc = "running"
    /\ released = FALSE
    /\ thr = [t \in Threads |-> NoThread]
    /\ chan = NoFrames
    /\ plug = NoSim

\* the application is between two calls
Idle == proc = "running" /\ call.op = "none"

\* the connection argument the application passes: its connection or NULL
ConnArgs == IF conn.state = "open" THEN {"conn", "NULL"} ELSE {"NULL"}

Tag(cond, name) == IF cond THEN {name} ELSE {}

\* the transport outcomes to draw: none when the call sends nothing
OutcomesIf(probe) == IF probe.sent = <<>> THEN {NotCalled} ELSE Outcomes
MemIf(probe) == IF probe.sent = <<>> THEN {MemOK} ELSE Mem
GarbageIf(outcome, n) ==
    IF outcome.k = "value" /\ outcome.v.t = "array_t" /\ Len(outcome.v.a) < n
    THEN Garbages(Len(outcome.v.a), n) ELSE {NoGarbage}

(***************************************************************************)
(* The simulator plug-in (sim://) the unit tests run against, as far as    *)
(* volume_create and job_status go: volume_create starts a job and answers *)
(* [job id, Null]; the job advances by itself and completes with a volume  *)
(* of enough blocks for the requested size; job_status answers             *)
(* [status, percent, Null] while the job runs and [Complete, 100, volume]  *)
(* once it is complete.  plug.job is "off" when the plug-in is not the     *)
(* simulator: then any answer can come and plug never changes.             *)
(***************************************************************************)
JobInProgress == 1
JobComplete == 2
PercentStep == 50
SimBlockSize == 4

\* the plug-in's job after a call that sent the requests in sent
sim_after(p, sent, arg) ==
    IF p.job = "off" \/ sent # <<"volume_create">>
    THEN p
    ELSE [job |-> "running", percent |-> 0, size |-> arg[1], blocks |-> 0]

\* what the plug-in answers to a request
sim_answer(p, method) ==
    IF method = "volume_create"
    THEN Returned(VArr(<<VStr("j1"), VNull>>))
    ELSE IF p.job = "done"
    THEN Returned(VArr(<<VNum(JobComplete), VNum(100), VObj(TRUE)>>))
    ELSE Returned(VArr(<<VNum(JobInProgress), VNum(p.percent), VNull>>))

\* the least number of blocks that hold size bytes
BlocksFor(size) == (size + SimBlockSize - 1) \div SimBlockSize

\* faulty variant: a transport fault destroys the connection
FinishArg_dropOnFault(op, c, bad, R, outcome, m, freed, arg) ==
    /\ call' = [op |-> op, rc |-> R.rc, sent |-> R.sent, job0 |-> job,
                out |-> R.out, val |-> R.val, valid |-> LSM_IS_CONNECT(c),
                bad |-> bad,
                outcome |-> IF R.sent = <<>> THEN NotCalled ELSE outcome,
                errOK |-> m.err, stage |-> R.stage,
                got |-> 0, freed |-> freed, load |-> 0, arg |-> arg]
    /\ conn' = IF freed > 0 \/ R.rc = "LSM_ERR_TRANSPORT_COMMUNICATION"
               THEN [state |-> "freed", error |-> NoError]
               ELSE [conn EXCEPT !.error = R.error]
    /\ job' = R.job
    /\ proc' = R.proc
    /\ released' = IF op = "lsm_job_free" /\ R.rc = "LSM_ERR_OK" /\ job # "NULL"
                   THEN TRUE
                   ELSE IF R.job # "NULL" THEN FALSE ELSE released
    /\ plug' = sim_after(plug, R.sent, arg)
    /\ UNCHANGED <<thr, chan>>

\* the call returns (or ends the process): its effects become the state
FinishArg(op, c, bad, R, outcome, m, freed, arg) ==
    /\ call' = [op |-> op, rc |-> R.rc, sent |-> R.sent, job0 |-> job,
                out |-> R.out, val |-> R.val, valid |-> LSM_IS_CONNECT(c),
                bad |-> bad,
                outcome |-> IF R.sent = <<>> THEN NotCalled ELSE outcome,
                errOK |-> m.err, stage |-> R.stage,
                got |-> 0, freed |-> freed, load |-> 0, arg |-> arg]
    /\ conn' = IF freed > 0
               THEN [state |-> "freed", error |-> NoError]
               ELSE [conn EXCEPT !.error = R.error]
    /\ job' = R.job
    /\ proc' = R.proc
    /\ released' = IF op = "lsm_job_free" /\ R.rc = "LSM_ERR_OK" /\ job # "NULL"
                   THEN TRUE
                   ELSE IF R.job # "NULL" THEN FALSE ELSE released
    /\ plug' = sim_after(plug, R.sent, arg)
    /\ UNCHANGED <<thr, chan>>

Finish(op, c, bad, R, outcome, m, freed) ==
    FinishArg(op, c, bad, R, outcome, m, freed, <<>>)

\* the application takes the results; the next call finds an older error
Return ==
    /\ proc = "running"
    /\ call.op # "none"
    /\ call' = NoCall
    /\ conn' = [conn EXCEPT !.error = Aged(@)]
    /\ UNCHANGED <<job, proc, released, thr, chan, plug>>

lsm_connect_password ==
    /\ Idle
    /\ conn.state # "open"
    /\ \E uri \in Uris, cs \in Slots, timeout \in {0, 30000}, es \in Slots,
          flags \in Flags, got \in BOOLEAN, dupOK \in BOOLEAN,
          drc \in DriverLoadCodes :
         LET b == connect_password(uri, cs, timeout, es, flags, got, dupOK, drc)
         IN /\ call' = [NoCall EXCEPT
                          !.op = "lsm_connect_password", !.rc = b.rc,
                          !.out = b.out, !.stage = b.stage,
                          !.bad = Tag(CHECK_STR(uri), "uri")
                                    \cup Tag(CHECK_RP(cs), "conn")
                                    \cup Tag(timeout = 0, "timeout")
                                    \cup Tag(CHECK_RP(es), "e")
                                    \cup Tag(LSM_FLAG_UNUSED_CHECK(flags), "flags")
                                    \cup Tag(uri \in {"garbage", "noscheme"}, "scheme"),
                          !.got = b.got, !.freed = b.freed, !.load = b.load]
            /\ conn' = IF b.out = "conn"
                       THEN [state |-> "open", error |-> NoError]
                       ELSE conn
            /\ UNCHANGED <<job, proc, released, thr, chan, plug>>

lsm_connect_close ==
    /\ Idle
    /\ \E c \in ConnArgs, flags \in Flags :
         LET bad == Tag(~LSM_IS_CONNECT(c), "c")
                      \cup Tag(LSM_FLAG_UNUSED_CHECK(flags), "flags")
             probe == connect_close(c, conn.error, job, flags, NotCalled, MemOK).res
         IN \E outcome \in OutcomesIf(probe), m \in MemIf(probe) :
              LET b == connect_close(c, conn.error, job, flags, outcome, m)
              IN Finish("lsm_connect_close", c, bad, b.res, outcome, m, b.freed)

lsm_connect_timeout_set ==
    /\ Idle
    /\ \E c \in ConnArgs, flags \in Flags :
         LET bad == Tag(~LSM_IS_CONNECT(c), "c")
                      \cup Tag(LSM_FLAG_UNUSED_CHECK(flags), "flags")
             probe == connect_timeout_set(c, conn.error, job, flags, NotCalled, MemOK)
         IN \E outcome \in OutcomesIf(probe), m \in MemIf(probe) :
              Finish("lsm_connect_timeout_set", c, bad,
                     connect_timeout_set(c, conn.error, job, flags, outcome, m),
                     outcome, m, 0)

\* the reads past the end of a one-element answer that matter to
\* lsm_plugin_info_get: the process ends, a string, something else
ShortAnswer(e) ==
    e.outcome.k = "value" /\ e.outcome.v.t = "array_t" /\ Len(e.outcome.v.a) < 2

ScanGarbage(dir) ==
    IF \E i \in 1..Len(dir) : ShortAnswer(dir[i])
    THEN {g \in Garbages(1, 2) : g.crash \/ g.v[2] \in {VNull, VStr("j1")}}
    ELSE {NoGarbage}

\* Discovery takes no connection and touches neither the application's
\* connection nor its job handle; it is called before connecting.
lsm_available_plugins_list ==
    /\ Idle
    /\ conn.state = "none"
    /\ \E sep \in Seps, plugins \in Slots, flags \in Flags :
         LET bad == Tag(CHECK_STR(sep), "sep")
                      \cup Tag(CHECK_RP(plugins), "plugins")
                      \cup Tag(LSM_FLAG_UNUSED_CHECK(flags), "flags")
         IN \E alloc \in (IF bad = {} THEN BOOLEAN ELSE {TRUE}) :
            \E opened \in (IF bad = {} /\ alloc THEN BOOLEAN ELSE {TRUE}) :
            \E dir \in (IF bad = {} /\ alloc /\ opened THEN Dirs ELSE {<<>>}) :
            \E closeOK \in (IF bad = {} /\ alloc /\ opened THEN BOOLEAN ELSE {TRUE}),
               g \in ScanGarbage(dir) :
              \E b \in {available_plugins_list(sep, plugins, flags, alloc, opened,
                                              dir, closeOK, g)} :
                 /\ call' = [NoCall EXCEPT
                               !.op = "lsm_available_plugins_list", !.rc = b.rc,
                               !.out = b.out, !.val = b.val, !.stage = b.stage,
                               !.bad = bad, !.got = b.got, !.freed = b.freed,
                               !.load = b.load,
                               !.arg = <<dir, sep, alloc, opened, closeOK, b.lists>>]
                 /\ proc' = b.proc
                 /\ UNCHANGED <<conn, job, released, thr, chan, plug>>

lsm_plugin_info_get ==
    /\ Idle
    /\ \E c \in ConnArgs, desc \in Slots, version \in Slots, flags \in Flags :
         LET bad == Tag(~LSM_IS_CONNECT(c), "c")
                      \cup Tag(CHECK_RP(desc), "desc")
                      \cup Tag(CHECK_RP(version), "version")
                      \cup Tag(LSM_FLAG_UNUSED_CHECK(flags), "flags")
             probe == plugin_info_get(c, conn.error, desc, version, job, flags,
                                      NotCalled, MemOK, TRUE, NoGarbage)
         IN \E outcome \in OutcomesIf(probe), m \in MemIf(probe) :
              \E g \in GarbageIf(outcome, 2),
                 dupV \in (IF probe.sent = <<>> THEN {TRUE} ELSE BOOLEAN) :
                Finish("lsm_plugin_info_get", c, bad,
                       plugin_info_get(c, conn.error, desc, version, job, flags,
                                       outcome, m, dupV, g),
                       outcome, m, 0)

lsm_job_status_get ==
    /\ Idle
    /\ \E c \in ConnArgs, statusp \in Ptrs, percentp \in Ptrs, flags \in Flags :
         LET bad == Tag(~LSM_IS_CONNECT(c), "c")
                      \cup Tag(job = "NULL", "job")
                      \cup Tag(statusp = "nullptr", "status")
                      \cup Tag(percentp = "nullptr", "percentComplete")
                      \cup Tag(LSM_FLAG_UNUSED_CHECK(flags), "flags")
             probe == job_status_get(c, conn.error, job, statusp, percentp,
                                     flags, NotCalled, MemOK, NoGarbage)
         IN \E outcome \in OutcomesIf(probe), m \in MemIf(probe) :
              \E g \in GarbageIf(outcome, 3) :
                FinishArg("lsm_job_status_get", c, bad,
                       job_status_get(c, conn.error, job, statusp, percentp,
                                      flags, outcome, m, g),
                       outcome, m, 0, <<released>>)

lsm_job_status_volume_get ==
    /\ Idle
    /\ \E c \in ConnArgs, statusp \in Ptrs, percentp \in Ptrs, vol \in Slots,
          flags \in Flags :
         LET bad == Tag(~LSM_IS_CONNECT(c), "c")
                      \cup Tag(job = "NULL", "job")
                      \cup Tag(statusp = "nullptr", "status")
                      \cup Tag(percentp = "nullptr", "percentComplete")
                      \cup Tag(CHECK_RP(vol), "vol")
                      \cup Tag(LSM_FLAG_UNUSED_CHECK(flags), "flags")
             probe == job_status_volume_get(c, conn.error, job, statusp, percentp,
                                            vol, flags, NotCalled, MemOK, NoGarbage)
         IN \E outcome \in OutcomesIf(probe), m \in MemIf(probe) :
              \E g \in GarbageIf(outcome, 3) :
                FinishArg("lsm_job_status_volume_get", c, bad,
                       job_status_volume_get(c, conn.error, job, statusp,
                                             percentp, vol, flags, outcome, m, g),
                       outcome, m, 0, <<released>>)

lsm_job_status_fs_get ==
    /\ Idle
    /\ \E c \in ConnArgs, statusp \in Ptrs, percentp \in Ptrs, fs \in Slots,
          flags \in Flags :
         LET bad == Tag(~LSM_IS_CONNECT(c), "c")
                      \cup Tag(job = "NULL", "job")
                      \cup Tag(statusp = "nullptr", "status")
                      \cup Tag(percentp = "nullptr", "percentComplete")
                      \cup Tag(CHECK_RP(fs), "fs")
                      \cup Tag(LSM_FLAG_UNUSED_CHECK(flags), "flags")
             probe == job_status_fs_get(c, conn.error, job, statusp, percentp,
                                        fs, flags, NotCalled, MemOK, NoGarbage)
         IN \E outcome \in OutcomesIf(probe), m \in MemIf(probe) :
              \E g \in GarbageIf(outcome, 3) :
                FinishArg("lsm_job_status_fs_get", c, bad,
                       job_status_fs_get(c, conn.error, job, statusp, percentp,
                                         fs, flags, outcome, m, g),
                       outcome, m, 0, <<released>>)

lsm_job_free ==
    /\ Idle
    /\ \E c \in ConnArgs, jp \in JobArgs, flags \in Flags,
          ub \in (IF job = "NULL" THEN StrlenNull ELSE {"nonzero"}) :
         LET bad == Tag(~LSM_IS_CONNECT(c), "c")
                      \cup Tag(jp = "nullptr" \/ job \in {"NULL", ""}, "job")
                      \cup Tag(LSM_FLAG_UNUSED_CHECK(flags), "flags")
             probe == job_free(c, conn.error, jp, job, flags, NotCalled, MemOK, ub)
         IN \E outcome \in OutcomesIf(probe), m \in MemIf(probe) :
              FinishArg("lsm_job_free", c, bad,
                        job_free(c, conn.error, jp, job, flags, outcome, m, ub),
                        outcome, m, 0, <<released>>)

lsm_pool_create ==
    /\ Idle
    /\ \E c \in ConnArgs, system \in Recs("system"), pool_name \in Strs,
          size_bytes \in {0, 10}, raid_type \in Enums, member_type \in Enums,
          pool \in Slots, jp \in JobArgs, flags \in Flags :
         LET bad == Tag(~LSM_IS_CONNECT(c), "c")
                      \cup Tag(~LSM_IS("system", system), "system")
                      \cup Tag(CHECK_STR(pool_name), "pool_name")
                      \cup Tag(size_bytes = 0, "size_bytes")
                      \cup Tag(raid_type # "valid", "raid_type")
                      \cup Tag(member_type # "valid", "member_type")
                      \cup Tag(CHECK_RP(pool), "pool")
                      \cup Tag(CHECK_RP(JobSlot(jp, job)), "job")
                      \cup Tag(LSM_FLAG_UNUSED_CHECK(flags), "flags")
             probe == pool_create(c, conn.error, system, pool_name, size_bytes,
                                  raid_type, member_type, pool, jp, job, flags,
                                  NotCalled, MemOK, NoGarbage)
         IN \E outcome \in OutcomesIf(probe), m \in MemIf(probe) :
              \E g \in GarbageIf(outcome, 2) :
                Finish("lsm_pool_create", c, bad,
                       pool_create(c, conn.error, system, pool_name, size_bytes,
                                   raid_type, member_type, pool, jp, job, flags,
                                   outcome, m, g),
                       outcome, m, 0)

lsm_pool_create_from_volumes ==
    /\ Idle
    /\ \E c \in ConnArgs, system \in Recs("system"), pool_name \in Strs,
          volumes \in {"NULL", "array"}, num_volumes \in {0, 1},
          raid_type \in Enums, pool \in Slots, jp \in JobArgs, flags \in Flags :
         LET bad == Tag(~LSM_IS_CONNECT(c), "c")
                      \cup Tag(~LSM_IS("system", system), "system")
                      \cup Tag(CHECK_STR(pool_name), "pool_name")
                      \cup Tag(volumes = "NULL" \/ num_volumes = 0, "volumes")
                      \cup Tag(raid_type # "valid", "raid_type")
                      \cup Tag(CHECK_RP(pool), "pool")
                      \cup Tag(CHECK_RP(JobSlot(jp, job)), "job")
                      \cup Tag(LSM_FLAG_UNUSED_CHECK(flags), "flags")
             probe == pool_create_from_volumes(c, conn.error, system, pool_name,
                                               volumes, num_volumes, raid_type,
                                               pool, jp, job, flags,
                                               NotCalled, MemOK, NoGarbage)
         IN \E outcome \in OutcomesIf(probe), m \in MemIf(probe) :
              \E g \in GarbageIf(outcome, 2) :
                Finish("lsm_pool_create_from_volumes", c, bad,
                       pool_create_from_volumes(c, conn.error, system, pool_name,
                                                volumes, num_volumes, raid_type,
                                                pool, jp, job, flags,
                                                outcome, m, g),
                       outcome, m, 0)

lsm_volume_create ==
    /\ Idle
    /\ \E c \in ConnArgs, pool \in Recs("pool"), volumeName \in Strs,
          size \in {0, 10}, newVolume \in Slots, jp \in JobArgs, flags \in Flags :
         LET bad == Tag(~LSM_IS_CONNECT(c), "c")
                      \cup Tag(~LSM_IS("pool", pool), "pool")
                      \cup Tag(CHECK_STR(volumeName), "volumeName")
                      \cup Tag(size = 0, "size")
                      \cup Tag(CHECK_RP(newVolume), "newVolume")
                      \cup Tag(CHECK_RP(JobSlot(jp, job)), "job")
                      \cup Tag(LSM_FLAG_UNUSED_CHECK(flags), "flags")
             probe == volume_create(c, conn.error, pool, volumeName, size,
                                    newVolume, jp, job, flags,
                                    NotCalled, MemOK, NoGarbage)
         IN \E outcome \in OutcomesIf(probe), m \in MemIf(probe) :
              \E g \in GarbageIf(outcome, 2) :
                Finish("lsm_volume_create", c, bad,
                       volume_create(c, conn.error, pool, volumeName, size,
                                     newVolume, jp, job, flags, outcome, m, g),
                       outcome, m, 0)

lsm_volume_child_dependency_delete ==
    /\ Idle
    /\ \E c \in ConnArgs, volume \in Recs("volume"), jp \in JobArgs, flags \in Flags :
         LET bad == Tag(~LSM_IS_CONNECT(c), "c")
                      \cup Tag(~LSM_IS("volume", volume), "volume")
                      \cup Tag(CHECK_RP(JobSlot(jp, job)), "job")
                      \cup Tag(LSM_FLAG_UNUSED_CHECK(flags), "flags")
             probe == volume_child_dependency_delete(c, conn.error, volume, jp,
                                                     job, flags, NotCalled, MemOK)
         IN \E outcome \in OutcomesIf(probe), m \in MemIf(probe) :
              Finish("lsm_volume_child_dependency_delete", c, bad,
                     volume_child_dependency_delete(c, conn.error, volume, jp,
                                                    job, flags, outcome, m),
                     outcome, m, 0)

lsm_pool_delete ==
    /\ Idle
    /\ \E c \in ConnArgs, pool \in Recs("pool"), jp \in JobArgs, flags \in Flags :
         LET bad == Tag(~LSM_IS_CONNECT(c), "c")
                      \cup Tag(~LSM_IS("pool", pool), "pool")
                      \cup Tag(CHECK_RP(JobSlot(jp, job)), "job")
                      \cup Tag(LSM_FLAG_UNUSED_CHECK(flags), "flags")
             probe == pool_delete(c, conn.error, pool, jp, job, flags,
                                  NotCalled, MemOK)
         IN \E outcome \in OutcomesIf(probe), m \in MemIf(probe) :
              Finish("lsm_pool_delete", c, bad,
                     pool_delete(c, conn.error, pool, jp, job, flags, outcome, m),
                     outcome, m, 0)

\* the sizes tried: a requested size in bytes, and the volume's geometry
Sizes == {0, 2, 3, 4}
BlockSizes == {0, 2}
BlockCounts == {1}

lsm_volume_resize ==
    /\ Idle
    /\ \E c \in ConnArgs, volume \in Recs("volume"), newSize \in Sizes,
          resizedVolume \in Slots, jp \in JobArgs, flags \in Flags :
       \E block_size \in (IF LSM_IS("volume", volume) THEN BlockSizes ELSE {0}),
          number_of_blocks \in (IF LSM_IS("volume", volume) THEN BlockCounts ELSE {0}) :
       \E div0 \in (IF block_size = 0 /\ LSM_IS("volume", volume)
                    THEN DivByZero ELSE {"zero"}) :
         LET bad == Tag(~LSM_IS_CONNECT(c), "c")
                      \cup Tag(~LSM_IS("volume", volume), "volume")
                      \cup Tag(newSize = 0, "newSize")
                      \cup Tag(CHECK_RP(resizedVolume), "resizedVolume")
                      \cup Tag(CHECK_RP(JobSlot(jp, job)), "job")
                      \cup Tag(LSM_FLAG_UNUSED_CHECK(flags), "flags")
             probe == volume_resize(c, conn.error, volume, newSize, block_size,
                                    number_of_blocks, resizedVolume, jp, job,
                                    flags, NotCalled, MemOK, NoGarbage, div0)
         IN \E outcome \in OutcomesIf(probe), m \in MemIf(probe) :
              \E g \in GarbageIf(outcome, 2) :
                FinishArg("lsm_volume_resize", c, bad,
                          volume_resize(c, conn.error, volume, newSize, block_size,
                                        number_of_blocks, resizedVolume, jp, job,
                                        flags, outcome, m, g, div0),
                          outcome, m, 0,
                          <<newSize, block_size, number_of_blocks>>)

lsm_volume_child_dependency ==
    /\ Idle
    /\ \E c \in ConnArgs, volume \in Recs("volume"), yes \in Ptrs, flags \in Flags :
         LET bad == Tag(~LSM_IS_CONNECT(c), "c")
                      \cup Tag(~LSM_IS("volume", volume), "volume")
                      \cup Tag(yes = "nullptr", "yes")
                      \cup Tag(LSM_FLAG_UNUSED_CHECK(flags), "flags")
             probe == volume_child_dependency(c, conn.error, volume, yes, job,
                                              flags, NotCalled, MemOK)
         IN \E outcome \in OutcomesIf(probe), m \in MemIf(probe) :
              Finish("lsm_volume_child_dependency", c, bad,
                     volume_child_dependency(c, conn.error, volume, yes, job,
                                             flags, outcome, m),
                     outcome, m, 0)

lsm_nfs_export_fs ==
    /\ Idle
    /\ \E c \in ConnArgs, fs_id \in Strs, root_list \in Lists, rw_list \in Lists,
          ro_list \in Lists, exported \in Slots, flags \in Flags :
         LET bad == Tag(~LSM_IS_CONNECT(c), "c")
                      \cup Tag(CHECK_STR(fs_id), "fs_id")
                      \cup Tag("other" \in {root_list, rw_list, ro_list}, "list")
                      \cup Tag({root_list, rw_list, ro_list} = {"NULL"}, "no_list")
                      \cup Tag(CHECK_RP(exported), "exported")
                      \cup Tag(LSM_FLAG_UNUSED_CHECK(flags), "flags")
             probe == nfs_export_fs(c, conn.error, fs_id, root_list, rw_list,
                                    ro_list, exported, job, flags, NotCalled, MemOK)
         IN \E outcome \in OutcomesIf(probe), m \in MemIf(probe) :
              Finish("lsm_nfs_export_fs", c, bad,
                     nfs_export_fs(c, conn.error, fs_id, root_list, rw_list,
                                   ro_list, exported, job, flags, outcome, m),
                     outcome, m, 0)

lsm_pool_list ==
    /\ Idle
    /\ \E c \in ConnArgs, poolArray \in Slots, count \in Ptrs, count0 \in Counts,
          flags \in Flags :
         LET bad == Tag(~LSM_IS_CONNECT(c), "c")
                      \cup Tag(CHECK_RP(poolArray), "poolArray")
                      \cup Tag(count = "nullptr", "count")
                      \cup Tag(LSM_FLAG_UNUSED_CHECK(flags), "flags")
             probe == pool_list(c, conn.error, poolArray, count, count0, job,
                                flags, NotCalled, MemOK)
         IN \E outcome \in OutcomesIf(probe), m \in MemIf(probe) :
              FinishArg("lsm_pool_list", c, bad,
                        pool_list(c, conn.error, poolArray, count, count0, job,
                                  flags, outcome, m),
                        outcome, m, 0, <<count0, poolArray>>)

lsm_system_list ==
    /\ Idle
    /\ \E c \in ConnArgs, systems \in Slots, systemCount \in Ptrs,
          count0 \in Counts, flags \in Flags :
         LET bad == Tag(~LSM_IS_CONNECT(c), "c")
                      \cup Tag(CHECK_RP(systems), "systems")
                      \cup Tag(systemCount = "nullptr", "systemCount")
                      \cup Tag(LSM_FLAG_UNUSED_CHECK(flags), "flags")
             probe == system_list(c, conn.error, systems, systemCount, count0,
                                  job, flags, NotCalled, MemOK, TRUE)
         IN \E outcome \in OutcomesIf(probe), m \in MemIf(probe) :
              \E rec \in (IF probe.sent = <<>> THEN {TRUE} ELSE BOOLEAN) :
                FinishArg("lsm_system_list", c, bad,
                          system_list(c, conn.error, systems, systemCount, count0,
                                      job, flags, outcome, m, rec),
                          outcome, m, 0, <<count0, systems>>)

lsm_disk_list ==
    /\ Idle
    /\ \E c \in ConnArgs, disks \in Slots, count \in Ptrs, count0 \in Counts,
          flags \in Flags :
         LET bad == Tag(~LSM_IS_CONNECT(c), "c")
                      \cup Tag(CHECK_RP(disks), "disks")
                      \cup Tag(count = "nullptr", "count")
                      \cup Tag(LSM_FLAG_UNUSED_CHECK(flags), "flags")
             probe == disk_list(c, conn.error, disks, count, count0, job, flags,
                                NotCalled, MemOK)
         IN \E outcome \in OutcomesIf(probe), m \in MemIf(probe) :
              FinishArg("lsm_disk_list", c, bad,
                        disk_list(c, conn.error, disks, count, count0, job, flags,
                                  outcome, m),
                        outcome, m, 0, <<count0, disks>>)

lsm_access_group_create ==
    /\ Idle
    /\ \E c \in ConnArgs, name \in Strs, initiator_id \in Strs, system_id \in Strs,
          access_group \in Slots, flags \in Flags :
         LET bad == Tag(~LSM_IS_CONNECT(c), "c")
                      \cup Tag(CHECK_STR(name), "name")
                      \cup Tag(CHECK_STR(initiator_id), "initiator_id")
                      \cup Tag(CHECK_STR(system_id), "system_id")
                      \cup Tag(CHECK_RP(access_group), "access_group")
                      \cup Tag(LSM_FLAG_UNUSED_CHECK(flags), "flags")
             probe == access_group_create(c, conn.error, name, initiator_id,
                                          system_id, access_group, job, flags,
                                          NotCalled, MemOK)
         IN \E outcome \in OutcomesIf(probe), m \in MemIf(probe) :
              Finish("lsm_access_group_create", c, bad,
                     access_group_create(c, conn.error, name, initiator_id,
                                         system_id, access_group, job, flags,
                                         outcome, m),
                     outcome, m, 0)

Next ==
    \/ lsm_connect_password
    \/ lsm_connect_close
    \/ lsm_connect_timeout_set
    \/ lsm_available_plugins_list
    \/ lsm_plugin_info_get
    \/ lsm_job_status_get
    \/ lsm_job_status_volume_get
    \/ lsm_job_status_fs_get
    \/ lsm_job_free
    \/ lsm_pool_create
    \/ lsm_pool_create_from_volumes
    \/ lsm_volume_create
    \/ lsm_volume_child_dependency_delete
    \/ lsm_pool_delete
    \/ lsm_volume_resize
    \/ lsm_volume_child_dependency
    \/ lsm_nfs_export_fs
    \/ lsm_pool_list
    \/ lsm_system_list
    \/ lsm_disk_list
    \/ lsm_access_group_create
    \/ Return

Spec == Init /\ [][Next]_vars

(***************************************************************************)
(* Two threads of the application calling on the same connection.          *)
(* A public function runs CONN_SETUP and then rpc(), which hands the       *)
(* request to the transport c->tp; neither takes a lock nor looks whether  *)
(* another call is inside.  The transport's own code is not part of this   *)
(* source file: its steps are taken from its description, write the        *)
(* request frame to the session channel, then block for a full response    *)
(* frame.  The plug-in answers the request frames in the order it reads    *)
(* them.  A frame carries, as history, the thread whose request it is or   *)
(* answers.                                                                *)
(***************************************************************************)
MaxCalls == 2
ThreadMethods == {"plugin_info", "job_status"}

InitThreads ==
    /\ conn = [state |-> "open", error |-> NoError]
    /\ job = "NULL"
    /\ call = NoCall
    /\ proc = "running"
    /\ released = FALSE
    /\ thr = [t \in Threads |-> NoThread]
    /\ chan = NoFrames
    /\ plug = NoSim

\* thread t enters a public function: CONN_SETUP, then on to rpc()
thread_CONN_SETUP(t) ==
    /\ thr[t].pc = "idle"
    /\ thr[t].calls < MaxCalls
    /\ \E c \in ConnArgs, method \in ThreadMethods :
         /\ thr' = [thr EXCEPT ![t] =
                      IF CONN_SETUP(c, conn.error).ok
                      THEN [@ EXCEPT !.pc = "rpc", !.method = method]
                      ELSE [@ EXCEPT !.pc = "returned", !.method = method,
                                     !.rc = "LSM_ERR_INVALID_CONN"]]
         /\ conn' = [conn EXCEPT !.error = CONN_SETUP(c, @).error]
    /\ UNCHANGED <<job, call, proc, released, chan, plug>>

\* c->tp->rpc, first half: the request frame is written to the channel
tp_write(t) ==
    /\ thr[t].pc = "rpc"
    /\ chan' = [chan EXCEPT !.req = Append(@, [from |-> t, method |-> thr[t].method])]
    /\ thr' = [thr EXCEPT ![t].pc = "written"]
    /\ UNCHANGED <<conn, job, call, proc, released, plug>>

\* the plug-in reads the next request frame and writes its response frame
plugin_answer ==
    /\ chan.req # <<>>
    /\ chan' = [req |-> Tail(chan.req), resp |-> Append(chan.resp, Head(chan.req))]
    /\ UNCHANGED <<conn, job, call, proc, released, thr, plug>>

\* c->tp->rpc, second half: the blocked thread reads the next full response
\* frame, and rpc() returns LSM_ERR_OK with it
tp_read(t) ==
    /\ thr[t].pc = "written"
    /\ chan.resp # <<>>
    /\ chan' = [chan EXCEPT !.resp = Tail(@)]
    /\ thr' = [thr EXCEPT ![t] = [@ EXCEPT !.pc = "returned", !.rc = "LSM_ERR_OK",
                                           !.got = Head(chan.resp)]]
    /\ UNCHANGED <<conn, job, call, proc, released, plug>>

\* the public function returns to thread t
thread_return(t) ==
    /\ thr[t].pc = "returned"
    /\ thr' = [thr EXCEPT ![t] = [NoThread EXCEPT !.calls = thr[t].calls + 1]]
    /\ UNCHANGED <<conn, job, call, proc, released, chan, plug>>

NextThreads ==
    \/ \E t \in Threads : thread_CONN_SETUP(t)
    \/ \E t \in Threads : tp_write(t)
    \/ plugin_answer
    \/ \E t \in Threads : tp_read(t)
    \/ \E t \in Threads : thread_return(t)

SpecThreads == InitThreads /\ [][NextThreads]_vars

(***************************************************************************)
(* A caller that creates a volume on the simulator and polls the job with  *)
(* the handle lsm_volume_create left it.  The library's part of each call  *)
(* is volume_create and job_status_volume_get as above; m is whether the   *)
(* allocations made during the call succeed.                               *)
(***************************************************************************)
ReqSizes == {10, 16}

InitJob ==
    /\ conn = [state |-> "open", error |-> NoError]
    /\ job = "NULL"
    /\ call = NoCall
    /\ proc = "running"
    /\ released = FALSE
    /\ thr = [t \in Threads |-> NoThread]
    /\ chan = NoFrames
    /\ plug = SimIdle

job_volume_create ==
    /\ Idle
    /\ plug.job = "none"
    /\ \E size \in ReqSizes, m \in Mem :
         FinishArg("lsm_volume_create", "conn", {},
                   volume_create("conn", conn.error, "pool", "name", size, "NULL",
                                 "handle", job, "0",
                                 sim_answer(plug, "volume_create"), m, NoGarbage),
                   sim_answer(plug, "volume_create"), m, 0, <<size>>)

\* the job advances in the plug-in
sim_progress ==
    /\ plug.job = "running"
    /\ plug' = IF plug.percent < 100
               THEN [plug EXCEPT !.percent = @ + PercentStep]
               ELSE [plug EXCEPT !.job = "done", !.blocks = BlocksFor(plug.size)]
    /\ UNCHANGED <<conn, job, call, proc, released, thr, chan>>

job_poll ==
    /\ Idle
    /\ plug.job \in {"running", "done"}
    /\ \E m \in Mem :
         FinishArg("lsm_job_status_volume_get", "conn",
                   Tag(job = "NULL", "job"),
                   job_status_volume_get("conn", conn.error, job, "ok", "ok", "NULL",
                                         "0", sim_answer(plug, "job_status"), m,
                                         NoGarbage),
                   sim_answer(plug, "job_status"), m, 0, <<released>>)

NextJob ==
    \/ job_volume_create
    \/ sim_progress
    \/ job_poll
    \/ Return

SpecJob ==
    /\ InitJob
    /\ [][NextJob]_vars
    /\ WF_vars(sim_progress)
    /\ WF_vars(job_poll)
    /\ WF_vars(Return)

(***************************************************************************)
(* Properties.  They are stated on the call that has just returned         *)
(* (call.op # "none"), from its arguments, what the transport did and what *)
(* the caller finds afterwards.                                            *)
(***************************************************************************)
Success == {"LSM_ERR_OK", "LSM_ERR_JOB_STARTED"}

InvalidCodes ==
    {"LSM_ERR_INVALID_CONN", "LSM_ERR_INVALID_ARGUMENT", "LSM_ERR_INVALID_SYSTEM",
     "LSM_ERR_INVALID_POOL", "LSM_ERR_INVALID_VOL", "LSM_ERR_INVALID_SL",
     "LSM_ERR_INVALID_URI"}

\* the transport reported a fault the plug-in declared
BackendFault == call.outcome.k = "LsmException"

ListOps == {"lsm_pool_list", "lsm_system_list", "lsm_disk_list"}

\* nothing was handed back: no record in the result slot (a list operation
\* may find the slot as the caller left it), no new job handle
NothingHandedBack ==
    /\ \/ call.out \in {"NULL", "nullptr"}
       \/ call.op \in ListOps /\ call.out = call.arg[2]
    /\ job = call.job0

\* C1 as claimed: on a backend-declared fault with code k every operation
\* returns k, hands back no result and no job, and the connection's
\* last-error slot holds an error with code k.
C1_AsClaimed ==
    BackendFault =>
        /\ call.rc = call.outcome.code
        /\ NothingHandedBack
        /\ conn.state = "open"
        /\ conn.error.code = call.outcome.code

\* C1 (amended): on a backend-declared fault with code k every operation
\* returns exactly k and hands back no result and no job; for every
\* operation but lsm_connect_close the last-error slot then holds an error
\* with code k stored by this call when lsm_error_create could allocate it
\* and is empty when it could not; lsm_connect_close has released the
\* connection together with its slot.
C1_BackendFaultPassThrough ==
    BackendFault =>
        /\ call.rc = call.outcome.code
        /\ NothingHandedBack
        /\ IF call.op = "lsm_connect_close"
           THEN conn.state = "freed"
           ELSE /\ conn.state = "open"
                /\ conn.error = IF call.errOK THEN ErrorRec(call.outcome.code)
                                ELSE NoError

C1_Witness ==
    /\ call.op = "lsm_volume_create"
    /\ call.outcome = ThrownLsm("LSM_ERR_VOLUME_SAME_SIZE")
    /\ call.rc = "LSM_ERR_VOLUME_SAME_SIZE"
    /\ conn.error = ErrorRec("LSM_ERR_VOLUME_SAME_SIZE")
    /\ call.out = "NULL" /\ job = "NULL"

\* C2: a failure of the transport that is no fault of the plug-in has exactly
\* one code (undecodable answer: LSM_ERR_TRANSPORT_SERIALIZATION, EOF:
\* LSM_ERR_TRANSPORT_COMMUNICATION, anything else: LSM_ERR_INTERNAL_ERROR),
\* and a call that sent a request returns LSM_ERR_OK only if a response
\* value was received.
C2_TransportFaultCodes ==
    /\ call.outcome.k = "ValueException"
          => call.rc = "LSM_ERR_TRANSPORT_SERIALIZATION"
    /\ call.outcome.k = "EOFException"
          => call.rc = "LSM_ERR_TRANSPORT_COMMUNICATION"
    /\ call.outcome.k = "other" => call.rc = "LSM_ERR_INTERNAL_ERROR"
    /\ (call.sent # <<>> /\ call.rc = "LSM_ERR_OK") => call.outcome.k = "value"

C2_Witness ==
    /\ call.op = "lsm_job_status_get"
    /\ call.outcome.k = "EOFException"
    /\ call.rc = "LSM_ERR_TRANSPORT_COMMUNICATION"

\* C3: a call sends at most one request; when the transport reports a fault
\* the call has sent exactly that one request and returns an error.
C3_NoRetry ==
    /\ Len(call.sent) <= 1
    /\ call.outcome.k \in {"ValueException", "EOFException", "other", "LsmException"}
          => Len(call.sent) = 1 /\ call.rc \notin Success \cup {"none"}

C3_Witness ==
    /\ call.op = "lsm_job_status_get"
    /\ call.outcome.k = "EOFException"
    /\ call.sent = <<"job_status">>
    /\ call.rc = "LSM_ERR_TRANSPORT_COMMUNICATION"

\* C4 as claimed: when a local precondition fails (invalid connection, null
\* or empty identifier, zero size, invalid enum value, record of the wrong
\* kind, unusable output slot) the call returns an invalid-argument /
\* invalid-X code and has sent no request.
C4_AsClaimed ==
    (call.bad \ {"flags", "scheme"}) # {} =>
        /\ call.rc \in InvalidCodes
        /\ call.sent = <<>>
        /\ call.load = 0

\* C5 as claimed: after a call on a valid connection the last-error slot is
\* empty or holds an error this very call recorded, also when the call was
\* rejected by local validation.
C5_AsClaimed ==
    (call.op # "none" /\ call.valid /\ conn.state = "open") =>
        (conn.error = NoError \/ conn.error.fresh)

\* C6 as claimed: when a call on a valid connection returns an error code
\* that arose from the transport or from interpreting the response, the
\* last-error slot holds the error record of that code (here: in the calls
\* that keep the connection and could allocate the record).
C6_AsClaimed ==
    (/\ call.valid
     /\ call.stage \in {"transport", "response"}
     /\ call.rc \notin Success \cup {"none"}
     /\ call.errOK
     /\ conn.state = "open")
        => conn.error = ErrorRec(call.rc)

\* lsm_connect_password got arguments that pass the argument check and a URI
\* that does not parse or has no scheme
BadUriOnly == call.op = "lsm_connect_password" /\ call.bad = {"scheme"}

\* C7 as claimed: such a call returns LSM_ERR_INVALID_URI, never calls
\* driver_load and leaves the connection output NULL.
C7_AsClaimed ==
    BadUriOnly =>
        /\ call.rc = "LSM_ERR_INVALID_URI"
        /\ call.load = 0
        /\ call.out = "NULL"

\* C7 (amended): such a call returns LSM_ERR_INVALID_URI when connection_get
\* delivered a connection and LSM_ERR_NO_MEMORY when it did not; either way
\* it never calls driver_load and leaves the connection output NULL.
C7_InvalidUri ==
    BadUriOnly =>
        /\ call.rc = IF call.got = 1 THEN "LSM_ERR_INVALID_URI"
                     ELSE "LSM_ERR_NO_MEMORY"
        /\ call.load = 0
        /\ call.out = "NULL"
        /\ conn.state # "open"

C7_Witness ==
    /\ BadUriOnly
    /\ call.got = 1
    /\ call.rc = "LSM_ERR_INVALID_URI"
    /\ call.freed = 1

\* C8: when lsm_connect_password returns a code other than LSM_ERR_OK after
\* it obtained a connection, that connection was released exactly once and
\* the connection output is still NULL; when it returns LSM_ERR_OK the
\* connection is the caller's and was not released.
C8_ConnectTeardown ==
    call.op = "lsm_connect_password" =>
        /\ (call.got = 1 /\ call.rc # "LSM_ERR_OK")
              => (call.freed = 1 /\ call.out = "NULL" /\ conn.state # "open")
        /\ call.rc = "LSM_ERR_OK"
              => (call.got = 1 /\ call.freed = 0 /\ call.out = "conn"
                  /\ conn.state = "open")

C8_Witness ==
    /\ call.op = "lsm_connect_password"
    /\ call.bad = {}
    /\ call.load = 0
    /\ call.rc = "LSM_ERR_NO_MEMORY"
    /\ call.got = 1 /\ call.freed = 1

\* the code the shutdown request itself ends with
ShutdownCode ==
    CASE call.outcome.k = "value" -> "LSM_ERR_OK"
      [] call.outcome.k = "ValueException" -> "LSM_ERR_TRANSPORT_SERIALIZATION"
      [] call.outcome.k = "EOFException" -> "LSM_ERR_TRANSPORT_COMMUNICATION"
      [] call.outcome.k = "LsmException" -> call.outcome.code
      [] OTHER -> "LSM_ERR_INTERNAL_ERROR"

\* C9: lsm_connect_close on a valid connection with valid flags sends exactly
\* one shutdown request, releases the connection exactly once whether that
\* request succeeded or not, and returns the request's own code.
C9_Close ==
    (call.op = "lsm_connect_close" /\ call.valid /\ call.bad = {}) =>
        /\ call.sent = <<"shutdown">>
        /\ call.freed = 1
        /\ conn.state = "freed"
        /\ call.rc = ShutdownCode

C9_Witness ==
    /\ call.op = "lsm_connect_close"
    /\ call.outcome.k = "EOFException"
    /\ call.rc = "LSM_ERR_TRANSPORT_COMMUNICATION"
    /\ call.freed = 1
    /\ conn.state = "freed"

\* the operations that can return a typed result or a job
AsyncTyped == {"lsm_pool_create", "lsm_pool_create_from_volumes", "lsm_volume_create"}

\* C10 as claimed: whatever the plug-in answers (here: an Array that has the
\* two elements the code reads), such an operation never hands back both a
\* job id and a materialized result.
C10_AsClaimed ==
    (/\ call.op \in AsyncTyped
     /\ call.outcome.k = "value"
     /\ call.outcome.v.t = "array_t"
     /\ Len(call.outcome.v.a) >= 2)
        => ~(call.job0 = "NULL" /\ job # "NULL" /\ call.out = "REC")

\* the operations that may start a job: with a typed result
\* (parse_job_response) and without one (jobCheck and its inline copy)
TypedAsync == AsyncTyped \cup {"lsm_volume_resize"}
UntypedAsync == {"lsm_pool_delete", "lsm_volume_child_dependency_delete"}

\* the request was answered with a Value
Answered == call.outcome.k = "value"
Answer == call.outcome.v

\* the call stored a job id in a handle that held none
JobHandedBack == call.job0 = "NULL" /\ job # "NULL"

C12_AsClaimed ==
    (/\ call.op \in TypedAsync \cup UntypedAsync
     /\ call.rc # "none"
     /\ (Answered /\ Answer.t = "array_t") => Len(Answer.a) >= 2)
        => (call.rc = "LSM_ERR_JOB_STARTED" <=> JobHandedBack)

\* the job polls, and those with a typed result
Polls == {"lsm_job_status_get", "lsm_job_status_volume_get", "lsm_job_status_fs_get"}
TypedPolls == Polls \ {"lsm_job_status_get"}

\* a number as the 8-bit percentComplete output holds it
U8(n) == n % 256

\* the answer is [status, percent, result] with numbers in the first two
ThreeElements ==
    /\ Answered
    /\ Answer.t = "array_t"
    /\ Len(Answer.a) = 3
    /\ Answer.a[1].t = "numeric_t"
    /\ Answer.a[2].t = "numeric_t"

\* C13: a poll with valid arguments sends exactly one job_status request;
\* for an answer [status, percent, result] it succeeds (unless a typed poll
\* gets an object that does not decode) and then reports status from
\* element 0, percent from element 1 (as the 8-bit output holds it), and as
\* typed result the decoded record if element 2 is an object, NULL if it is
\* Null or anything else.
C13_Poll ==
    call.op \in Polls =>
        /\ (call.valid /\ call.bad = {}) => call.sent = <<"job_status">>
        /\ Len(call.sent) <= 1
        /\ ThreeElements =>
             LET e2 == Answer.a[3]
                 decodes == ~(call.op \in TypedPolls /\ e2.t = "object_t" /\ ~e2.ok)
             IN /\ call.rc = "LSM_ERR_OK" <=> decodes
                /\ call.rc = "LSM_ERR_OK" =>
                     /\ call.val = <<Answer.a[1].n, U8(Answer.a[2].n)>>
                     /\ call.op \in TypedPolls =>
                          call.out = IF e2.t = "object_t" THEN "REC" ELSE "NULL"

C13_Witness ==
    /\ call.op = "lsm_job_status_volume_get"
    /\ call.outcome = Returned(VArr(<<VNum(50), VNum(50), VObj(TRUE)>>))
    /\ call.sent = <<"job_status">>
    /\ call.rc = "LSM_ERR_OK"
    /\ call.val = <<50, 50>>
    /\ call.out = "REC"

\* lsm_job_free was called on the application's handle, on a live connection
\* with flags 0, after an earlier lsm_job_free had released that handle
FreeAgain ==
    /\ call.op = "lsm_job_free"
    /\ call.arg = <<TRUE>>
    /\ call.valid
    /\ call.bad = {"job"}
    /\ call.job0 = "NULL"

\* C14 as claimed: freeing a released handle again sends no job_free
\* request, does not fault and leaves the handle released.
C14_AsClaimed ==
    FreeAgain => (call.sent = <<>> /\ proc = "running" /\ job = "NULL")

\* C15: when lsm_job_free returns LSM_ERR_OK the handle is NULL, and a poll
\* with a handle so released returns an error and sends no job_status
\* request; when lsm_job_free returns an error the handle is what it was.
C15_FreeThenPoll ==
    /\ (call.op = "lsm_job_free" /\ call.rc = "LSM_ERR_OK")
          => (/\ job = "NULL"
              /\ call.job0 # "NULL" => released
              /\ call.sent = <<"job_free">>)
    /\ (call.op \in Polls /\ call.arg = <<TRUE>>)
          => (/\ call.job0 = "NULL"
              /\ call.rc \notin Success \cup {"none"}
              /\ call.sent = <<>>
              /\ job = "NULL")
    /\ (call.op = "lsm_job_free" /\ call.rc \notin {"LSM_ERR_OK", "none"})
          => job = call.job0

C15_Witness ==
    /\ call.op = "lsm_job_status_get"
    /\ call.arg = <<TRUE>>
    /\ call.valid
    /\ call.bad = {"job"}
    /\ call.rc = "LSM_ERR_INVALID_ARGUMENT"
    /\ call.sent = <<>>

\* lsm_volume_resize got valid arguments and a new size that is the size the
\* volume has (number_of_blocks * block_size)
SameSize ==
    /\ call.op = "lsm_volume_resize"
    /\ call.valid
    /\ call.bad = {}
    /\ call.arg[1] = call.arg[2] * call.arg[3]

\* C17: such a call returns LSM_ERR_VOLUME_SAME_SIZE, sends no request and
\* leaves the resized-volume output and the job handle NULL.
C17_SameSize ==
    SameSize =>
        /\ call.rc = "LSM_ERR_VOLUME_SAME_SIZE"
        /\ call.sent = <<>>
        /\ call.out = "NULL"
        /\ job = "NULL"

C17_Witness ==
    /\ SameSize
    /\ call.arg = <<2, 2, 1>>
    /\ call.rc = "LSM_ERR_VOLUME_SAME_SIZE"
    /\ call.sent = <<>>

\* lsm_available_plugins_list was called with valid arguments; its inputs
Discovery == call.op = "lsm_available_plugins_list" /\ call.bad = {}
Dir == call.arg[1]
Sep == call.arg[2]
ListAllocated == call.arg[3]
DirOpened == call.arg[4]
DirClosed == call.arg[5]

\* what a directory entry is, told from the entry alone
IsSocket(e) == e.d_type = "sock"
Connects(e) == IsSocket(e) /\ e.got /\ e.drc = "LSM_ERR_OK"
Unreachable(e) == IsSocket(e) /\ e.got /\ e.drc # "LSM_ERR_OK"
WellAnswered(e) ==
    /\ e.outcome.k = "value"
    /\ e.outcome.v.t = "array_t"
    /\ Len(e.outcome.v.a) >= 2
    /\ e.outcome.v.a[1].t = "string_t"
    /\ e.outcome.v.a[2].t = "string_t"
TooShort(e) ==
    e.outcome.k = "value" /\ e.outcome.v.t = "array_t" /\ Len(e.outcome.v.a) < 2
NoMemoryFault(e) == e.dupD /\ e.dupV /\ e.fmt /\ e.app = "LSM_ERR_OK"

\* description<sep>version of the backends that connect and answer, in
\* directory order
Catalog(dir, sep) ==
    LET upto[k \in 0..Len(dir)] ==
            IF k = 0 THEN <<>>
            ELSE LET e == dir[k]
                 IN IF Connects(e) /\ WellAnswered(e)
                    THEN Append(upto[k - 1],
                                e.outcome.v.a[1].s \o sep \o e.outcome.v.a[2].s)
                    ELSE upto[k - 1]
    IN upto[Len(dir)]

\* nothing else goes wrong: list allocated, directory opened and closed
ScanSound == ListAllocated /\ DirOpened /\ DirClosed

\* C18 as claimed: with backends that either connect and answer or cannot
\* be connected, discovery returns LSM_ERR_OK with the catalog of those
\* that answer.
C18_AsClaimed ==
    (/\ Discovery
     /\ ScanSound
     /\ \A i \in 1..Len(Dir) :
          /\ NoMemoryFault(Dir[i])
          /\ ~IsSocket(Dir[i]) \/ Unreachable(Dir[i])
               \/ (Connects(Dir[i]) /\ WellAnswered(Dir[i])))
        => (call.rc = "LSM_ERR_OK" /\ call.val = Catalog(Dir, Sep))

\* C19 as claimed: with backends that all connect, some of which fail the
\* plugin_info request (the transport fails, or the answer is no Array of
\* strings), discovery returns LSM_ERR_OK with the catalog of those that
\* answer, wherever the failing ones are in the directory.
C19_AsClaimed ==
    (/\ Discovery
     /\ ScanSound
     /\ \A i \in 1..Len(Dir) :
          /\ NoMemoryFault(Dir[i])
          /\ ~TooShort(Dir[i])
          /\ ~IsSocket(Dir[i]) \/ Connects(Dir[i]))
        => (call.rc = "LSM_ERR_OK" /\ call.val = Catalog(Dir, Sep))

\* C20 as claimed, second half: an empty directory gives LSM_ERR_OK and an
\* empty catalog.
C20_AsClaimed ==
    (Discovery /\ DirOpened /\ Dir = <<>>)
        => (call.rc = "LSM_ERR_OK" /\ call.val = <<>>)

\* C20 (amended): when discovery returns LSM_ERR_OK the caller gets the
\* catalog: one string description<sep>version for each socket entry whose
\* backend connected and answered plugin_info with two strings, in directory
\* order, and nothing for other files (no backend having answered with an
\* Array too short to read); an empty directory gives LSM_ERR_OK and an
\* empty catalog when the list could be allocated and the directory closed,
\* LSM_ERR_NO_MEMORY or LSM_ERR_INTERNAL_ERROR and no catalog otherwise.
C20_Catalog ==
    Discovery =>
        /\ (call.rc = "LSM_ERR_OK" /\ \A i \in 1..Len(Dir) : ~TooShort(Dir[i]))
              => (call.out = "LIST" /\ call.val = Catalog(Dir, Sep))
        /\ (DirOpened /\ Dir = <<>>) =>
              /\ call.rc = IF ~ListAllocated THEN "LSM_ERR_NO_MEMORY"
                           ELSE IF ~DirClosed THEN "LSM_ERR_INTERNAL_ERROR"
                           ELSE "LSM_ERR_OK"
              /\ call.rc = "LSM_ERR_OK" => (call.out = "LIST" /\ call.val = <<>>)
              /\ call.rc # "LSM_ERR_OK" => (call.out = "NULL" /\ call.val = "unset")

C20_Witness ==
    /\ Discovery
    /\ Len(Dir) = 3
    /\ Dir[1] = Sock("a", "1")
    /\ ~IsSocket(Dir[2])
    /\ Dir[3] = Sock("b", "2")
    /\ call.rc = "LSM_ERR_OK"
    /\ call.val = <<"a:1", "b:2">>

\* thread t has a request on the channel whose response has not been read
OnChannel(t) == thr[t].pc = "written"

\* C16 as claimed: with two threads calling on the same connection, a call
\* is rejected or the calls take the channel one after the other: no two
\* threads have a request outstanding at once, and a call that returned
\* LSM_ERR_OK read the response to its own request.
C16_AsClaimed ==
    /\ \A t \in Threads, u \in Threads :
         (OnChannel(t) /\ OnChannel(u)) => t = u
    /\ \A t \in Threads :
         (thr[t].pc = "returned" /\ thr[t].rc = "LSM_ERR_OK")
            => (thr[t].got.from = t /\ thr[t].got.method = thr[t].method)

\* C30 as claimed: lsm_volume_resize with valid arguments and a requested
\* size in bytes other than number_of_blocks * block_size (the block size
\* not being zero) does not return LSM_ERR_VOLUME_SAME_SIZE and sends the
\* volume_resize request.
C30_AsClaimed ==
    (/\ call.op = "lsm_volume_resize"
     /\ call.valid
     /\ call.bad = {}
     /\ call.arg[2] # 0
     /\ call.arg[1] # call.arg[2] * call.arg[3])
        => (/\ call.rc # "LSM_ERR_VOLUME_SAME_SIZE"
            /\ call.sent = <<"volume_resize">>)

\* C25 as claimed: a poll answered [status, percent, result] that returns
\* LSM_ERR_OK reports as percent the number the plug-in sent, and that
\* number is in 0..100.
C25_AsClaimed ==
    (call.op \in Polls /\ ThreeElements /\ call.rc = "LSM_ERR_OK")
        => (/\ call.val[2] = Answer.a[2].n
            /\ call.val[2] \in 0..100)

\* C27: when lsm_available_plugins_list returns after having allocated the
\* catalog list, it has freed as many connections as connection_get gave
\* it, each break leaving one to the free after the loop, and the list has
\* been handed to the caller if the code is LSM_ERR_OK and freed otherwise.
C27_Released ==
    (Discovery /\ ListAllocated /\ proc = "running") =>
        /\ call.freed = call.got
        /\ call.load = call.got
        /\ call.arg[6] = IF call.rc = "LSM_ERR_OK" THEN "handed" ELSE "freed"
        /\ call.out = "LIST" <=> call.rc = "LSM_ERR_OK"

C27_Witness ==
    /\ Discovery
    /\ ScanSound
    /\ Len(Dir) = 3
    /\ Dir[1] = Sock("a", "1")
    /\ Connects(Dir[2]) /\ Dir[2].outcome.k = "EOFException"
    /\ Unreachable(Dir[3])
    /\ call.got = 3
    /\ call.freed = 3
    /\ call.rc = "LSM_ERR_TRANSPORT_COMMUNICATION"
    /\ call.arg[6] = "freed"

\* C29 as claimed: a call that returns a code other than LSM_ERR_OK and
\* LSM_ERR_JOB_STARTED leaves no result output pointing to memory it freed.
C29_AsClaimed ==
    (call.op # "none" /\ proc = "running" /\ call.rc \notin Success)
        => call.out # "freed"

\* how many elements of an Array answer the operation reads
Reads(op) ==
    IF op \in Polls THEN 3
    ELSE IF op \in TypedAsync \cup {"lsm_plugin_info_get"} THEN 2
    ELSE 0

\* the operations whose handling of the answer's shape is looked at
Decoding ==
    Polls \cup TypedAsync \cup {"lsm_plugin_info_get", "lsm_access_group_create"}

\* C21 as claimed: whatever Value the plug-in answers with, the operation
\* returns to its caller, and with an error code when the answer is an
\* Array shorter than what the operation reads.
C21_AsClaimed ==
    (call.op \in Decoding /\ call.sent # <<>> /\ Answered) =>
        /\ proc = "running"
        /\ (Answer.t = "array_t" /\ Len(Answer.a) < Reads(call.op))
              => call.rc \notin Success


\* C23 as claimed: a list operation with valid arguments whose request is
\* answered with Null returns LSM_ERR_OK, count 0 and no array.
C23_AsClaimed ==
    (/\ call.op \in ListOps
     /\ call.valid
     /\ call.bad = {}
     /\ Answered
     /\ Answer = VNull)
        => (/\ call.rc = "LSM_ERR_OK"
            /\ call.val = <<0>>
            /\ call.out = "NULL")

\* C26 as claimed: a list operation whose only fault is its array output
\* (no address given, or the pointer there is not NULL) returns
\* LSM_ERR_INVALID_ARGUMENT and sends nothing.
C26_AsClaimed ==
    (/\ call.op \in ListOps
     /\ call.valid
     /\ call.bad \in {{"poolArray"}, {"systems"}, {"disks"}})
        => (/\ call.rc = "LSM_ERR_INVALID_ARGUMENT"
            /\ call.sent = <<>>)

\* C28 as claimed: an operation called on a valid connection with reserved
\* flag bits set and every other argument valid returns
\* LSM_ERR_INVALID_ARGUMENT and sends nothing.
C28_AsClaimed ==
    (call.op # "none" /\ call.valid /\ call.bad = {"flags"})
        => (/\ call.rc = "LSM_ERR_INVALID_ARGUMENT"
            /\ call.sent = <<>>)

JobStarted == call.op = "lsm_volume_create" /\ call.rc = "LSM_ERR_JOB_STARTED"

\* a poll reports Complete with a volume, which the plug-in made of enough
\* blocks for the requested size
CompleteWithVolume ==
    /\ call.op = "lsm_job_status_volume_get"
    /\ call.rc = "LSM_ERR_OK"
    /\ call.val[1] = JobComplete
    /\ call.out = "REC"
    /\ plug.blocks * SimBlockSize >= plug.size

\* C24 as claimed: on the simulator, with a caller that keeps polling, a
\* lsm_volume_create that returned LSM_ERR_JOB_STARTED is followed by a poll
\* that reports Complete with a volume of at least the requested size.
C24_AsClaimed == JobStarted ~> CompleteWithVolume

====
